---- MODULE Spec2Model ----
(***************************************************************************)
(* Model of the tinyrv RV32I core of M151B_ComputerArchitecture:           *)
(*   Project2/src/gshare.cpp   GShare and GSharePlus branch predictors     *)
(*   Project2/src/execute.cpp  Core::alu_unit, Core::branch_unit,          *)
(*                             Core::mem_access, Core::get_csr, set_csr    *)
(*   Project1/src/decode.cpp   Core::decode                                *)
(*                                                                         *)
(* A uint32_t is a pair <<hi, lo>> of its 16-bit halves, its value being  *)
(* hi * 2^16 + lo: TLC's integers stop at 2^31-1, and the code's           *)
(* wrap-around (PC + 4), sign bits and masks need all 32 bits.  The 2-bit  *)
(* counters of the tables are naturals: the code only compares them with   *)
(* small literals and adds or subtracts one.                               *)
(***************************************************************************)
EXTENDS Integers, Sequences, FiniteSets, TLC

\* ------------------------------------------------------------------------
\* uint32_t arithmetic

Pow2(n) == 2^n

Half == Pow2(16)

\* the uint32_t with value n, for 0 <= n < 2^31
Word(n) == <<n \div Half, n % Half>>

\* the uint32_t with value hi * 2^16 + lo, each half in 0..65535
Word2(hi, lo) == <<hi, lo>>

\* the value of w as a natural; w must be below 2^31
Val(w) == w[1] * Half + w[2]

\* bit i of w
Bit(w, i) == IF i < 16 THEN (w[2] \div Pow2(i)) % 2 ELSE (w[1] \div Pow2(i - 16)) % 2

RECURSIVE BitAnd(_, _)
BitAnd(a, b) ==
  IF a = 0 \/ b = 0 THEN 0
  ELSE (a % 2) * (b % 2) + 2 * BitAnd(a \div 2, b \div 2)

RECURSIVE BitOr(_, _)
BitOr(a, b) ==
  IF a = 0 THEN b ELSE IF b = 0 THEN a
  ELSE (IF (a % 2) + (b % 2) > 0 THEN 1 ELSE 0) + 2 * BitOr(a \div 2, b \div 2)

RECURSIVE BitXor(_, _)
BitXor(a, b) ==
  IF a = 0 THEN b ELSE IF b = 0 THEN a
  ELSE (((a % 2) + (b % 2)) % 2) + 2 * BitXor(a \div 2, b \div 2)

\* w >> n on uint32_t, 0 <= n <= 31
Shr(w, n) ==
  IF n = 0 THEN w
  ELSE IF n < 16
  THEN <<w[1] \div Pow2(n), (w[2] \div Pow2(n)) + (w[1] % Pow2(n)) * Pow2(16 - n)>>
  ELSE <<0, w[1] \div Pow2(n - 16)>>

\* w << n on uint32_t, 0 <= n <= 31
Shl(w, n) ==
  IF n = 0 THEN w
  ELSE IF n < 16
  THEN <<(w[1] % Pow2(16 - n)) * Pow2(n) + (w[2] \div Pow2(16 - n)),
         (w[2] % Pow2(16 - n)) * Pow2(n)>>
  ELSE <<(w[2] % Pow2(32 - n)) * Pow2(n - 16), 0>>

And(a, b) == <<BitAnd(a[1], b[1]), BitAnd(a[2], b[2])>>

Or(a, b) == <<BitOr(a[1], b[1]), BitOr(a[2], b[2])>>

Xor(a, b) == <<BitXor(a[1], b[1]), BitXor(a[2], b[2])>>

Not(a) == <<65535 - a[1], 65535 - a[2]>>

\* a + b on uint32_t (mod 2^32)
Add(a, b) ==
  LET lo == a[2] + b[2]
      hi == a[1] + b[1] + (lo \div Half)
  IN  <<hi % Half, lo % Half>>

\* a - b on uint32_t (mod 2^32)
Sub(a, b) == Add(Add(a, Not(b)), Word(1))

\* a < b on uint32_t
LtU(a, b) == \/ a[1] < b[1]
             \/ a[1] = b[1] /\ a[2] < b[2]

\* (int32_t)a < (int32_t)b
LtS(a, b) == IF Bit(a, 31) # Bit(b, 31) THEN Bit(a, 31) = 1 ELSE LtU(a, b)

\* ------------------------------------------------------------------------
\* configuration of the model

\* GShare constructor arguments
BTB_size == 2

BHR_size == 2

\* history width of GSharePlus's global sub-predictor
GlobalBHRSize == 12

\* most update calls in one behaviour
MaxUpdates == 4

\* a second PC with the BTB index of PC 0 and another tag
AliasPC == Word(4 * BTB_size)

\* the PCs presented to the predictors; the last one wraps at PC + 4
PCs == {Word(0), Word(4), AliasPC, Word2(65535, 65532)}

\* the PCs presented to a GSharePlus
PlusPCs == {Word(0), Word(4), AliasPC}

\* an explicit branch target, with bit 31 set
FarTarget == Word2(32768, 64)

\* their word addresses
WordAddresses == {Shr(PC, 2) : PC \in PCs}

\* next_PC arguments of update(PC, ...): the fall-through address and a target
NextPCs(PC) == {Add(PC, Word(4)), FarTarget}

\* ------------------------------------------------------------------------
\* GShare (gshare.cpp, gshare.h)

\* A table of counters (std::vector filled with one value at construction)
\* is the fill value and the entries that differ from it: the global
\* sub-predictor's PHT_ has 2^12 entries, of which a run writes a few.
Table(size, val) == [size |-> size, fill |-> val, at |-> <<>>]

\* t[i]
At(t, i) == IF i \in DOMAIN t.at THEN t.at[i] ELSE t.fill

\* t after t[i] = v
Put(t, i, v) ==
  [t EXCEPT !.at = [j \in (IF v = t.fill THEN DOMAIN t.at \ {i} ELSE DOMAIN t.at \cup {i}) |->
                      IF j = i THEN v ELSE t.at[j]]]

\* std::fill(t.begin(), t.end(), val)
Fill(t, val) == [t EXCEPT !.fill = val, !.at = <<>>]

RECURSIVE log2ceil(_)
log2ceil(n) == IF n <= 1 THEN 0 ELSE 1 + log2ceil((n + 1) \div 2)

\* GShare::GShare
GShare(btb_size, bhr_size) ==
  [BTB_       |-> [i \in 0..(btb_size - 1) |->
                     [valid |-> FALSE, tag |-> Word(0), br_target |-> Word(0)]],
   PHT_       |-> Table(Pow2(bhr_size), 0),
   BHR_       |-> Word(0),
   BTB_shift_ |-> log2ceil(btb_size),
   BTB_mask_  |-> Word(btb_size - 1),
   BHR_mask_  |-> Word(Pow2(bhr_size) - 1)]

\* GShare::change_default_prediction
change_default_prediction(g, val) ==
  [g EXCEPT !.PHT_ = Fill(@, val)]

\* pht_index of GShare::predict
predict_pht_index(g, PC) == Val(And(Xor(Shr(PC, 2), g.BHR_), g.BHR_mask_))

\* btb_index of GShare::predict and GShare::update
btb_index(g, PC) == Val(And(Shr(PC, 2), g.BTB_mask_))

\* the tag of PC: PC>>2 >> BTB_shift_
btb_tag(g, PC) == Shr(Shr(PC, 2), g.BTB_shift_)

\* btb_hit without the tag comparison
btb_hit_untagged(g, PC) == g.BTB_[btb_index(g, PC)].valid

\* the BTB hit test of GShare::predict
btb_hit(g, PC) ==
  /\ g.BTB_[btb_index(g, PC)].valid
  /\ g.BTB_[btb_index(g, PC)].tag = btb_tag(g, PC)

\* predict_taken with the threshold at weakly not-taken
predict_taken_from_one(g, PC) == At(g.PHT_, predict_pht_index(g, PC)) >= 1

\* predict_taken of GShare::predict
predict_taken(g, PC) == At(g.PHT_, predict_pht_index(g, PC)) >= 2

\* GShare::predict: the returned next_PC
GShare_predict(g, PC) ==
  IF predict_taken(g, PC) /\ btb_hit(g, PC)
  THEN g.BTB_[btb_index(g, PC)].br_target
  ELSE Add(PC, Word(4))

\* GShare_after_predict with the prediction shifted into the BHR_
GShare_after_predict_speculating(g, PC) ==
  [g EXCEPT !.BHR_ = And(Or(Shl(g.BHR_, 1), Word(IF predict_taken(g, PC) THEN 1 ELSE 0)),
                         g.BHR_mask_)]

\* GShare::predict: the object after the call; the function assigns to its
\* locals only
GShare_after_predict(g, PC) == g

\* bhr_step shifting only the taken outcomes in
bhr_step_on_taken(g, taken) ==
  IF taken THEN And(Or(Shl(g.BHR_, 1), Word(1)), g.BHR_mask_) ELSE g.BHR_

\* the BHR_ shift of GShare::update
bhr_step(g, taken) ==
  And(Or(Shl(g.BHR_, 1), Word(IF taken THEN 1 ELSE 0)), g.BHR_mask_)

\* update_pht_index computed after the BHR_ has been shifted
update_pht_index_late(g, PC) ==
  Val(And(Xor(Shr(PC, 2), bhr_step(g, FALSE)), g.BHR_mask_))

\* pht_index of GShare::update, computed from the BHR_ of the call's entry
update_pht_index(g, PC) == Val(And(Xor(Shr(PC, 2), g.BHR_), g.BHR_mask_))

\* counter_step without the clamps: entry + 1 on taken, entry - 1 otherwise
counter_step_unclamped(entry, taken) == IF taken THEN entry + 1 ELSE entry - 1

\* the 2-bit saturating counter step of GShare::update
counter_step(entry, taken) ==
  IF taken THEN (IF entry < 3 THEN entry + 1 ELSE 3)
           ELSE (IF entry > 0 THEN entry - 1 ELSE 0)

\* btb_step writing the entry whatever the outcome
btb_step_on_any_outcome(g, PC, next_PC, taken) ==
  [g.BTB_ EXCEPT ![btb_index(g, PC)] =
     [valid |-> TRUE, tag |-> btb_tag(g, PC), br_target |-> next_PC]]

\* the BTB_ write of GShare::update
btb_step(g, PC, next_PC, taken) ==
  IF taken
  THEN [g.BTB_ EXCEPT ![btb_index(g, PC)] =
          [valid |-> TRUE, tag |-> btb_tag(g, PC), br_target |-> next_PC]]
  ELSE g.BTB_

\* GShare::update: the object after the call
GShare_update(g, PC, next_PC, taken) ==
  LET pht_index == update_pht_index(g, PC)
  IN  [g EXCEPT !.BHR_ = bhr_step(g, taken),
                !.PHT_ = Put(@, pht_index, counter_step(At(@, pht_index), taken)),
                !.BTB_ = btb_step(g, PC, next_PC, taken)]

\* ------------------------------------------------------------------------
\* GSharePlus (gshare.cpp, gshare.h)

\* GSharePlus::GSharePlus
GSharePlus(btb_size, bhr_size) ==
  [local_predictor  |-> change_default_prediction(GShare(btb_size, bhr_size), 2),
   global_predictor |-> change_default_prediction(GShare(btb_size, GlobalBHRSize), 2),
   meta_predictor   |-> Table(Pow2(bhr_size), 2),
   meta_mask        |-> Word(Pow2(bhr_size) - 1)]

\* meta_index with the local sub-predictor's history XORed in
meta_index_with_history(p, PC) ==
  Val(And(Xor(Shr(PC, 2), p.local_predictor.BHR_), p.meta_mask))

\* meta_index of GSharePlus::predict and GSharePlus::update
meta_index(p, PC) == Val(And(Shr(PC, 2), p.meta_mask))

\* use_GShare with the selection inverted
use_GShare_inverted(p, PC) == At(p.meta_predictor, meta_index(p, PC)) < 2

\* use_GShare of GSharePlus::predict
use_GShare(p, PC) == At(p.meta_predictor, meta_index(p, PC)) >= 2

\* GSharePlus::predict: the returned next_PC
GSharePlus_predict(p, PC) ==
  LET local_prediction  == GShare_predict(p.local_predictor, PC)
      global_prediction == GShare_predict(p.global_predictor, PC)
  IN  IF use_GShare(p, PC) THEN local_prediction ELSE global_prediction

\* GSharePlus::predict: the object after the call; it calls predict of both
\* sub-predictors and assigns to its locals only
GSharePlus_after_predict(p, PC) ==
  [p EXCEPT !.local_predictor  = GShare_after_predict(@, PC),
            !.global_predictor = GShare_after_predict(@, PC)]

\* local_prediction of GSharePlus::update
implied_local(p, PC) == GShare_predict(p.local_predictor, PC) # Add(PC, Word(4))

\* global_prediction of GSharePlus::update
implied_global(p, PC) == GShare_predict(p.global_predictor, PC) # Add(PC, Word(4))

\* meta_step with || for && in its first test
meta_step_or(meta_prediction, local_correct, global_correct) ==
  IF global_correct \/ ~local_correct
  THEN (IF meta_prediction < 3 THEN meta_prediction + 1 ELSE meta_prediction)
  ELSE IF ~global_correct /\ local_correct
  THEN (IF meta_prediction > 0 THEN meta_prediction - 1 ELSE meta_prediction)
  ELSE meta_prediction

\* the meta-counter step of GSharePlus::update
meta_step(meta_prediction, local_correct, global_correct) ==
  IF global_correct /\ ~local_correct
  THEN (IF meta_prediction < 3 THEN meta_prediction + 1 ELSE meta_prediction)
  ELSE IF ~global_correct /\ local_correct
  THEN (IF meta_prediction > 0 THEN meta_prediction - 1 ELSE meta_prediction)
  ELSE meta_prediction

\* GSharePlus::update judging the sub-predictors after their own updates
GSharePlus_update_judging_late(p, PC, next_PC, taken) ==
  LET local_after    == GShare_update(p.local_predictor, PC, next_PC, taken)
      global_after   == GShare_update(p.global_predictor, PC, next_PC, taken)
      local_correct  == ((GShare_predict(local_after, PC) # Add(PC, Word(4))) = taken)
      global_correct == ((GShare_predict(global_after, PC) # Add(PC, Word(4))) = taken)
  IN  [p EXCEPT
         !.meta_predictor = Put(@, meta_index(p, PC),
                                meta_step(At(@, meta_index(p, PC)), local_correct, global_correct)),
         !.local_predictor  = local_after,
         !.global_predictor = global_after]

\* GSharePlus::update: the object after the call
GSharePlus_update(p, PC, next_PC, taken) ==
  LET local_correct  == (implied_local(p, PC) = taken)
      global_correct == (implied_global(p, PC) = taken)
  IN  [p EXCEPT
         !.meta_predictor = Put(@, meta_index(p, PC),
                                meta_step(At(@, meta_index(p, PC)), local_correct, global_correct)),
         !.local_predictor  = GShare_update(@, PC, next_PC, taken),
         !.global_predictor = GShare_update(@, PC, next_PC, taken)]

\* ------------------------------------------------------------------------
\* Core::branch_unit (execute.cpp)

\* most control-flow instructions resolved in one behaviour
MaxBranches == 2

\* BrOp
BrOps == {"NONE", "JAL", "JALR", "BEQ", "BNE", "BLT", "BGE", "BLTU", "BGEU"}

\* rs1_data, rs2_data of an instruction: equal, less in both orders, and
\* less as int32_t but not as uint32_t
OperandPairs ==
  {<<Word(0), Word(0)>>, <<Word(0), Word(1)>>, <<Word2(65535, 65535), Word(1)>>}

\* rd_data handed to branch_unit: the ALU's result
AluResults == {Word(8), FarTarget}

\* PC of the instruction in the execute stage; the second wraps at PC + 4
ExecPCs == {Word(0), Word2(65535, 65532)}

\* PC of the instruction the fetch stage puts in the IF/ID latch
FetchPCs == {Word(4), Word(8)}

\* the switch on br_op of Core::branch_unit
br_taken(br_op, rs1_data, rs2_data) ==
  CASE br_op = "NONE" -> FALSE
    [] br_op \in {"JAL", "JALR"} -> TRUE
    [] br_op = "BEQ"  -> rs1_data = rs2_data
    [] br_op = "BNE"  -> rs1_data # rs2_data
    [] br_op = "BLT"  -> LtS(rs1_data, rs2_data)
    [] br_op = "BGE"  -> ~LtS(rs1_data, rs2_data)
    [] br_op = "BLTU" -> LtU(rs1_data, rs2_data)
    [] br_op = "BGEU" -> ~LtU(rs1_data, rs2_data)

\* resolves with the test on br_op dropped
resolves_always(br_op) == TRUE

\* "if (br_op != BrOp::NONE)": the instruction is resolved as a branch
resolves(br_op) == br_op # "NONE"

\* next_PC of Core::branch_unit
branch_next_PC(taken, rd_data, PC) == IF taken THEN rd_data ELSE Add(PC, Word(4))

\* branch_rd_data with the link address dropped
branch_rd_data_unlinked(br_op, taken, rd_data, PC) == rd_data

\* the rd_data Core::branch_unit returns
branch_rd_data(br_op, taken, rd_data, PC) ==
  IF resolves(br_op) /\ taken /\ br_op \in {"JAL", "JALR"}
  THEN Add(PC, Word(4))
  ELSE rd_data

\* mispredicted with the comparison inverted
mispredicted_inverted(next_PC, latched_PC) == next_PC = latched_PC

\* "if (next_PC != if_id_->data().PC)"
mispredicted(next_PC, latched_PC) == next_PC # latched_PC

\* trains_predictor moved inside the misprediction branch
trains_predictor_on_miss(enabled, miss) == enabled # 0 /\ miss

\* "if (gshare_enabled)": the resolved branch is passed to bpred_->update
trains_predictor(enabled, miss) == enabled # 0

\* if_id_->reset(): the latch holds nothing
latch_reset == [valid |-> FALSE, PC |-> Word(0)]

\* ------------------------------------------------------------------------
\* Core::decode (decode.cpp)

\* enum Constants: the widths of the instruction fields
width_opcode == 7

width_reg == 5

width_func3 == 3

width_func7 == 7

width_i_imm == 12

width_j_imm == 20

\* enum Constants: the shifts of the instruction fields
shift_opcode == 0

shift_rd == width_opcode

shift_func3 == shift_rd + width_reg

shift_rs1 == shift_func3 + width_func3

shift_rs2 == shift_rs1 + width_reg

shift_func7 == shift_rs2 + width_reg

shift_i_imm == shift_rs2

shift_u_imm == shift_func3

shift_j_imm == shift_func3

shift_s_imm_4_0 == shift_rd

shift_s_imm_11_5 == shift_func7

shift_b_imm_4_1_11 == shift_rd

shift_b_imm_12_10_5 == shift_func7

\* enum Constants: the masks of the instruction fields
mask_opcode == Pow2(width_opcode) - 1

mask_reg == Pow2(width_reg) - 1

mask_func3 == Pow2(width_func3) - 1

mask_func7 == Pow2(width_func7) - 1

mask_i_imm == Pow2(width_i_imm) - 1

mask_j_imm == Pow2(width_j_imm) - 1

mask_u_imm == mask_j_imm

mask_s_imm_4_0 == mask_reg

mask_s_imm_11_5 == mask_func7

mask_b_imm_4_1_11 == mask_reg

mask_b_imm_12_10_5 == mask_func7

\* enum Opcode (types.h): the RV32I major opcodes, bits [6:0] of the word
OpcodeBits ==
  [R |-> 51, L |-> 3, I |-> 19, S |-> 35, B |-> 99, LUI |-> 55, AUIPC |-> 23,
   JAL |-> 111, JALR |-> 103, SYS |-> 115, FENCE |-> 15]

\* Opcode(bits): the enumerator with these bits, "other" when there is none
Opcode(bits) ==
  IF \E o \in DOMAIN OpcodeBits : OpcodeBits[o] = bits
  THEN CHOOSE o \in DOMAIN OpcodeBits : OpcodeBits[o] = bits
  ELSE "other"

\* sc_instTable
sc_instTable ==
  [R |-> "R", L |-> "I", I |-> "I", S |-> "S", B |-> "B", LUI |-> "U", AUIPC |-> "U",
   JAL |-> "J", JALR |-> "I", SYS |-> "I", FENCE |-> "I"]

\* (instr_code >> shift) & mask, a value below 2^31
Field(instr_code, shift, mask) == Val(And(Shr(instr_code, shift), Word(mask)))

\* memset(&exe_flags, 0, sizeof(ExeFlags))
NoFlags ==
  [use_rd |-> 0, use_rs1 |-> 0, use_rs2 |-> 0, use_imm |-> 0, alu_s1_PC |-> 0,
   alu_s1_rs1 |-> 0, alu_s1_inv |-> 0, alu_s2_imm |-> 0, alu_s2_csr |-> 0,
   is_load |-> 0, is_store |-> 0, is_csr |-> 0, is_exit |-> 0]

\* "if (sign_bit) imm |= 0xFFFFF000" for a 12-bit imm
SignExtend12(imm) ==
  IF And(imm, Word(2048)) # Word(0) THEN Or(imm, Word2(65535, 61440)) ELSE imm

\* the immediate of InstType::I, opcodes I, L and JALR
imm_I(instr_code) ==
  LET imm == And(Shr(instr_code, shift_i_imm), Word(mask_i_imm))
  IN  IF And(imm, Word(2048)) # Word(0)
      THEN Or(Shr(Shl(imm, 20), 20), Word2(65535, 61440))
      ELSE Shr(Shl(imm, 20), 20)

\* the immediate of InstType::S
imm_S(instr_code) ==
  LET imm_4_0  == And(Shr(instr_code, shift_s_imm_4_0), Word(mask_s_imm_4_0))
      imm_11_5 == And(Shr(instr_code, shift_s_imm_11_5), Word(mask_s_imm_11_5))
  IN  SignExtend12(Or(Shl(imm_11_5, 5), imm_4_0))

\* imm_B with the sign extension dropped
imm_B_zero_extended(instr_code) ==
  LET imm_4_1_11  == And(Shr(instr_code, shift_b_imm_4_1_11), Word(mask_b_imm_4_1_11))
      imm_12_10_5 == And(Shr(instr_code, shift_b_imm_12_10_5), Word(mask_b_imm_12_10_5))
      imm_4_1     == And(Shr(imm_4_1_11, 1), Word(15))
      imm_11      == And(imm_4_1_11, Word(1))
      imm_10_5    == And(imm_12_10_5, Word(63))
      imm_12      == And(Shr(imm_12_10_5, 6), Word(1))
      imm         == Or(Or(Shl(imm_12, 11), Shl(imm_11, 10)), Or(Shl(imm_10_5, 4), imm_4_1))
  IN  Shl(imm, 1)

\* the immediate of InstType::B
imm_B(instr_code) ==
  LET imm_4_1_11  == And(Shr(instr_code, shift_b_imm_4_1_11), Word(mask_b_imm_4_1_11))
      imm_12_10_5 == And(Shr(instr_code, shift_b_imm_12_10_5), Word(mask_b_imm_12_10_5))
      imm_4_1     == And(Shr(imm_4_1_11, 1), Word(15))
      imm_11      == And(imm_4_1_11, Word(1))
      imm_10_5    == And(imm_12_10_5, Word(63))
      imm_12      == And(Shr(imm_12_10_5, 6), Word(1))
      imm         == Or(Or(Shl(imm_12, 11), Shl(imm_11, 10)), Or(Shl(imm_10_5, 4), imm_4_1))
  IN  Shl(SignExtend12(imm), 1)

\* the immediate of InstType::U
imm_U(instr_code) == Shl(And(Shr(instr_code, shift_u_imm), Word(mask_u_imm)), 12)

\* the immediate of InstType::J
imm_J(instr_code) ==
  LET raw       == And(Shr(instr_code, shift_j_imm), Word(mask_j_imm))
      imm_20    == And(Shr(raw, 19), Word(1))
      imm_19_12 == And(raw, Word(255))
      imm_11    == And(Shr(raw, 8), Word(1))
      imm_10_1  == And(Shr(raw, 9), Word(1023))
      imm       == Or(Or(Shl(imm_20, 19), Shl(imm_19_12, 11)), Or(Shl(imm_11, 10), imm_10_1))
      ext       == IF And(imm, Word2(8, 0)) # Word(0)
                   THEN Or(Shr(Shl(imm, 12), 12), Word2(65520, 0))
                   ELSE Shr(Shl(imm, 12), 12)
  IN  Shl(ext, 1)

\* sys_flags with use_rs1 set for every CSR instruction
sys_flags_rs1_always(func3) ==
  [NoFlags EXCEPT !.use_imm = 1,
                  !.use_rd = IF func3 # 0 THEN 1 ELSE 0,
                  !.use_rs1 = IF func3 # 0 THEN 1 ELSE 0]

\* "case Opcode::SYS" of the switch on inst_type: the flags
sys_flags(func3) ==
  [NoFlags EXCEPT !.use_imm = 1,
                  !.use_rd = IF func3 # 0 THEN 1 ELSE 0,
                  !.use_rs1 = IF func3 # 0 /\ func3 < 5 THEN 1 ELSE 0]

\* "switch (inst_type)": the flags and the immediate.  The SYS case ends in
\* "imm = // TODO:", an assignment with nothing to assign: imm keeps the 0x0
\* it was initialised with.
type_stage(inst_type, opcode, func3, instr_code) ==
  CASE inst_type = "R" ->
         [exe_flags |-> [NoFlags EXCEPT !.use_rd = 1, !.use_rs1 = 1, !.use_rs2 = 1],
          imm |-> Word(0), abort |-> FALSE]
    [] inst_type = "I" /\ opcode \in {"I", "L", "JALR"} ->
         [exe_flags |-> [NoFlags EXCEPT !.use_rd = 1, !.use_rs1 = 1, !.use_imm = 1,
                                        !.alu_s2_imm = 1],
          imm |-> imm_I(instr_code), abort |-> FALSE]
    [] inst_type = "I" /\ opcode = "SYS" ->
         [exe_flags |-> sys_flags(func3), imm |-> Word(0), abort |-> FALSE]
    [] inst_type = "I" /\ opcode = "FENCE" ->
         [exe_flags |-> NoFlags, imm |-> Word(0), abort |-> FALSE]
    [] inst_type = "S" ->
         [exe_flags |-> [NoFlags EXCEPT !.use_rs1 = 1, !.use_rs2 = 1, !.use_imm = 1,
                                        !.alu_s2_imm = 1],
          imm |-> imm_S(instr_code), abort |-> FALSE]
    [] inst_type = "B" ->
         [exe_flags |-> [NoFlags EXCEPT !.use_rs1 = 1, !.use_rs2 = 1, !.use_imm = 1,
                                        !.alu_s2_imm = 1],
          imm |-> imm_B(instr_code), abort |-> FALSE]
    [] inst_type = "U" ->
         [exe_flags |-> [NoFlags EXCEPT !.use_rd = 1, !.use_imm = 1, !.alu_s2_imm = 1],
          imm |-> imm_U(instr_code), abort |-> FALSE]
    [] inst_type = "J" ->
         [exe_flags |-> [NoFlags EXCEPT !.use_rd = 1, !.use_imm = 1, !.alu_s2_imm = 1],
          imm |-> imm_J(instr_code), abort |-> FALSE]
    [] OTHER -> [exe_flags |-> NoFlags, imm |-> Word(0), abort |-> TRUE]

\* "case Opcode::R": the switch on func3; alu_op is the value on entry
case_R(func3, func7, alu_op) ==
  CASE func3 = 0 -> IF func7 = 0 THEN "ADD" ELSE IF func7 = 32 THEN "SUB" ELSE alu_op
    [] func3 = 4 -> "XOR"
    [] func3 = 6 -> "OR"
    [] func3 = 7 -> "AND"
    [] func3 = 1 -> "SLL"
    [] func3 = 5 -> IF func7 = 0 THEN "SRL" ELSE IF func7 = 32 THEN "SRA" ELSE alu_op
    [] func3 = 2 -> "LTI"
    [] func3 = 3 -> "LTU"

\* "case Opcode::I": the switch on func3; its case 0x1 is the statement
\* "AluOp::SLL;", which assigns nothing
case_I(func3, func7, alu_op) ==
  CASE func3 = 0 -> "ADD"
    [] func3 = 4 -> "XOR"
    [] func3 = 6 -> "OR"
    [] func3 = 7 -> "AND"
    [] func3 = 1 -> alu_op
    [] func3 = 5 -> IF func7 = 0 THEN "SRL" ELSE IF func7 = 32 THEN "SRA" ELSE alu_op
    [] func3 = 2 -> "LTI"
    [] func3 = 3 -> "LTU"

\* "case Opcode::B": the switch on func3; br_op is the value on entry
case_B(func3, br_op) ==
  CASE func3 = 0 -> "BEQ"
    [] func3 = 1 -> "BNE"
    [] func3 = 4 -> "BLT"
    [] func3 = 5 -> "BGE"
    [] func3 = 6 -> "BLTU"
    [] func3 = 7 -> "BGEU"
    [] OTHER -> br_op

\* the case labels of "switch (opcode)" that run for an opcode: case R and
\* case I end without a break and run on into the next case
cases_run(opcode) ==
  CASE opcode = "R" -> {"R", "I", "B"}
    [] opcode = "I" -> {"I", "B"}
    [] OTHER -> {opcode}

\* "case Opcode::SYS"
case_SYS(func3, imm, exe_flags) ==
  IF func3 = 0
  THEN [alu_op |-> "ADD",
        exe_flags |-> IF imm \in {Word(0), Word(1)}
                      THEN [exe_flags EXCEPT !.is_exit = 1] ELSE exe_flags,
        abort |-> imm \notin {Word(0), Word(1), Word(2), Word(258), Word(770)}]
  ELSE [alu_op |-> CASE func3 \in {1, 5} -> "ADD"
                     [] func3 \in {2, 6} -> "OR"
                     [] func3 \in {3, 7} -> "AND"
                     [] OTHER -> "NONE",
        exe_flags |-> [exe_flags EXCEPT !.is_csr = 1, !.alu_s2_csr = 1,
                                        !.alu_s1_inv = IF func3 \in {3, 7} THEN 1 ELSE @,
                                        !.alu_s1_rs1 = IF func3 \in {5, 6, 7} THEN 1 ELSE @],
        abort |-> func3 = 4]

\* "switch (opcode)": alu_op, br_op and the flags it sets.  The cases JAL,
\* JALR, L and S assign "// TODO:", nothing: alu_op and br_op keep NONE.
opcode_stage(opcode, func3, func7, imm, exe_flags) ==
  LET run  == cases_run(opcode)
      alu0 == "NONE"
      alu1 == IF "R" \in run THEN case_R(func3, func7, alu0) ELSE alu0
      alu2 == IF "I" \in run THEN case_I(func3, func7, alu1) ELSE alu1
      sys  == case_SYS(func3, imm, exe_flags)
  IN  [alu_op |-> CASE "B" \in run -> "SUB"
                    [] "LUI" \in run -> "SLL"
                    [] "AUIPC" \in run -> "ADD"
                    [] "SYS" \in run -> sys.alu_op
                    [] OTHER -> alu2,
       br_op |-> IF "B" \in run THEN case_B(func3, "NONE") ELSE "NONE",
       exe_flags |-> CASE "B" \in run \/ "AUIPC" \in run \/ "JAL" \in run ->
                            [exe_flags EXCEPT !.alu_s1_PC = 1]
                       [] "L" \in run -> [exe_flags EXCEPT !.is_load = 1]
                       [] "S" \in run -> [exe_flags EXCEPT !.is_store = 1]
                       [] "SYS" \in run -> sys.exe_flags
                       [] OTHER -> exe_flags,
       abort |-> "SYS" \in run /\ sys.abort]

\* Core::decode: ret is "Instr" with the fields of the Instr returned,
\* "nullptr", or "abort" for std::abort()
decode(instr_code) ==
  LET opcode == Opcode(Field(instr_code, shift_opcode, mask_opcode))
      func3  == Field(instr_code, shift_func3, mask_func3)
      func7  == Field(instr_code, shift_func7, mask_func7)
      rd     == Field(instr_code, shift_rd, mask_reg)
      rs1    == Field(instr_code, shift_rs1, mask_reg)
      rs2    == Field(instr_code, shift_rs2, mask_reg)
  IN  IF opcode \notin DOMAIN sc_instTable THEN [ret |-> "nullptr"]
      ELSE LET t == type_stage(sc_instTable[opcode], opcode, func3, instr_code)
               o == opcode_stage(opcode, func3, func7, t.imm, t.exe_flags)
           IN  IF t.abort \/ o.abort THEN [ret |-> "abort"]
               ELSE [ret |-> "Instr", opcode |-> opcode, rd |-> rd, rs1 |-> rs1, rs2 |-> rs2,
                     imm |-> t.imm, func3 |-> func3, func7 |-> func7,
                     alu_op |-> o.alu_op, br_op |-> o.br_op, exe_flags |-> o.exe_flags]

\* the instruction word with these fields
Encode(opbits, rd, func3, rs1, rs2, func7) ==
  Or(Or(Or(Shl(Word(func7), shift_func7), Shl(Word(rs2), shift_rs2)),
        Or(Shl(Word(rs1), shift_rs1), Shl(Word(func3), shift_func3))),
     Or(Shl(Word(rd), shift_rd), Word(opbits)))

\* the words given to decode: every supported opcode and one that is none,
\* every func3, func7 with and without bit 5 and with other bits, and a few
\* register numbers
OpcodeInputs == {OpcodeBits[o] : o \in DOMAIN OpcodeBits} \cup {127}

Func7Inputs == {0, 32, 1, 127}

RdInputs == {0, 10, 31}

Rs1Inputs == {10, 21}

Rs2Inputs == {10, 31}

InstrCodes ==
  {Encode(op, rd, f3, rs1, rs2, f7) :
     op \in OpcodeInputs, rd \in RdInputs, f3 \in 0..7,
     rs1 \in Rs1Inputs, rs2 \in Rs2Inputs, f7 \in Func7Inputs}

\* the uint32_t of a signed offset v, -2^31 < v < 2^31
ToWord32(v) == IF v >= 0 THEN Word(v) ELSE Not(Word(-v - 1))

\* the signed offsets given to decode as immediates, by the number of bits
\* of the field and the lowest bit it holds: the least, the greatest, zero,
\* the one below zero, and every single bit with either sign
Offsets(bits, low) ==
  {-Pow2(bits - 1), Pow2(bits - 1) - Pow2(low), -Pow2(low), 0}
    \cup {Pow2(k) : k \in low..(bits - 2)} \cup {-Pow2(k) : k \in low..(bits - 2)}

\* the I-type word of opcode opbits, rd x5, rs1 x0 and immediate v
EncodeI(opbits, v) ==
  LET u == (v + 4096) % 4096
  IN  Encode(opbits, 5, 0, 0, u % 32, u \div 32)

\* the S-type word of rs1 x0, rs2 x0 and immediate v
EncodeS(v) ==
  LET u == (v + 4096) % 4096
  IN  Encode(OpcodeBits.S, u % 32, 0, 0, 0, u \div 32)

\* the B-type word (BEQ x0, x0) of branch offset v
EncodeB(func3, v) ==
  LET u == (v + 8192) % 8192
  IN  Encode(OpcodeBits.B, ((u \div 2) % 16) * 2 + ((u \div 2048) % 2), func3, 0, 0,
             ((u \div 4096) % 2) * 64 + ((u \div 32) % 64))

\* the U-type word of opcode opbits, rd x5 and upper immediate k * 2^12
EncodeU(opbits, k) ==
  LET u == (k + 1048576) % 1048576
  IN  Encode(opbits, 5, u % 8, (u \div 8) % 32, (u \div 256) % 32, u \div 8192)

\* the J-type word (JAL x5) of jump offset v
EncodeJ(v) ==
  LET u == (v + 2097152) % 2097152
  IN  Encode(OpcodeBits.JAL, 5, (u \div 4096) % 8, (u \div 32768) % 32,
             ((u \div 2) % 16) * 2 + ((u \div 2048) % 2),
             ((u \div 1048576) % 2) * 64 + ((u \div 32) % 64))

\* the opcodes whose words carry an I-type immediate that decode extracts
ITypeImmOpcodes == {OpcodeBits.I, OpcodeBits.L, OpcodeBits.JALR}

\* the opcodes whose words carry a U-type immediate
UTypeImmOpcodes == {OpcodeBits.LUI, OpcodeBits.AUIPC}

\* the words given to decode for their immediates
ImmCodes ==
  {EncodeI(op, v) : op \in ITypeImmOpcodes, v \in Offsets(12, 0)}
    \cup {EncodeS(v) : v \in Offsets(12, 0)}
    \cup {EncodeB(0, v) : v \in Offsets(13, 1)}
    \cup {EncodeU(op, k) : op \in UTypeImmOpcodes, k \in Offsets(20, 0)}
    \cup {EncodeJ(v) : v \in Offsets(21, 1)}

\* every word given to decode
DecodeInputs == InstrCodes \cup ImmCodes

\* ------------------------------------------------------------------------
\* Core::alu_unit, Core::mem_access, Core::get_csr, Core::set_csr (execute.cpp)

\* AluOp
AluOps == {"NONE", "ADD", "SUB", "AND", "OR", "XOR", "SLL", "SRL", "SRA", "LTI", "LTU"}

\* (int32_t)w >> n, 0 <= n <= 31, the sign bit shifted in
Sar(w, n) == IF Bit(w, 31) = 1 THEN Not(Shr(Not(w), n)) ELSE Shr(w, n)

\* alu_s1 of Core::alu_unit
alu_s1(instr, rs1_data, PC) ==
  LET s == IF instr.exe_flags.alu_s1_PC # 0 THEN PC
           ELSE IF instr.exe_flags.alu_s1_rs1 # 0 THEN Word(instr.rs1)
           ELSE rs1_data
  IN  IF instr.exe_flags.alu_s1_inv # 0 THEN Not(s) ELSE s

\* alu_s2 of Core::alu_unit
alu_s2(instr, rs2_data) ==
  IF instr.exe_flags.alu_s2_imm # 0 THEN instr.imm ELSE rs2_data

\* The shift operators are applied to alu_s2 as it is.  A count of 32 or more
\* on a 32-bit operand is undefined in C++: a build whose shift instruction
\* reads five bits of the count shifts by count mod 32, one that reads more
\* bits, or folds the shift at compile time, shifts every bit out.  The
\* counts a build may apply, 32 standing for "every bit out":
shift_counts(count) ==
  IF count[1] = 0 /\ count[2] < 32 THEN {count[2]} ELSE {count[2] % 32, 32}

\* w << n for an applied count n in 0..32
shift_left(w, n) == IF n >= 32 THEN Word(0) ELSE Shl(w, n)

\* w >> n on uint32_t for an applied count n in 0..32
shift_right(w, n) == IF n >= 32 THEN Word(0) ELSE Shr(w, n)

\* (int32_t)w >> n for an applied count n in 0..32
shift_right_arith(w, n) == IF n >= 32 THEN Sar(w, 31) ELSE Sar(w, n)

\* Core::alu_unit: the values of rd_data it may return
alu_unit(instr, rs1_data, rs2_data, PC) ==
  LET s1 == alu_s1(instr, rs1_data, PC)
      s2 == alu_s2(instr, rs2_data)
      op == instr.alu_op
  IN  CASE op = "NONE" -> {Word(0)}
        [] op = "ADD"  -> {Add(s1, s2)}
        [] op = "SUB"  -> {Sub(s1, s2)}
        [] op = "AND"  -> {And(s1, s2)}
        [] op = "OR"   -> {Or(s1, s2)}
        [] op = "XOR"  -> {Xor(s1, s2)}
        [] op = "SLL"  -> {shift_left(s1, n) : n \in shift_counts(s2)}
        [] op = "SRL"  -> {shift_right(s1, n) : n \in shift_counts(s2)}
        [] op = "SRA"  -> {shift_right_arith(s1, n) : n \in shift_counts(s2)}
        [] op = "LTI"  -> {IF LtS(s1, s2) THEN Word(1) ELSE Word(0)}
        [] op = "LTU"  -> {IF LtU(s1, s2) THEN Word(1) ELSE Word(0)}

\* sext(word, width) of util.h: word sign-extended from its low width bits
sext(word, width) ==
  IF width >= 32 THEN word
  ELSE IF Bit(word, width - 1) = 1
       THEN Or(word, Shl(Not(Word(0)), width))
       ELSE And(word, Shr(Not(Word(0)), 32 - width))

\* Core::dmem_read into a zeroed uint32_t: the low size bytes of the bytes
\* the memory holds at the address, mem_data, little-endian; size <= 4
dmem_read(mem_data, size) ==
  IF size >= 4 THEN mem_data ELSE And(mem_data, Shr(Not(Word(0)), 32 - 8 * size))

\* data_bytes of Core::mem_access
data_bytes(func3) == Pow2(func3 % 4)

\* sext with the extension dropped
load_value_zero_extended(func3, mem_data) ==
  dmem_read(mem_data, data_bytes(func3))

\* the "if (exe_flags.is_load)" block of Core::mem_access for a func3 it
\* has a case for: the rd_data loaded
load_value(func3, mem_data) ==
  LET read_data == dmem_read(mem_data, data_bytes(func3))
  IN  IF func3 \in {0, 1, 2} THEN sext(read_data, 8 * data_bytes(func3))
      ELSE read_data

\* the CSR addresses of the cases of get_csr and set_csr (VX_CSR_*)
VX_CSR ==
  [MHARTID |-> 3860, SATP |-> 384, PMPCFG0 |-> 928, PMPADDR0 |-> 944,
   MSTATUS |-> 768, MISA |-> 769, MEDELEG |-> 770, MIDELEG |-> 771, MIE |-> 772,
   MTVEC |-> 773, MEPC |-> 833, MNSTATUS |-> 1860, MCYCLE |-> 2816,
   MCYCLE_H |-> 2944, MINSTRET |-> 2818, MINSTRET_H |-> 2946]

\* the name of the case label with this address, "default" when there is none
csr_case(addr) ==
  IF \E n \in DOMAIN VX_CSR : Word(VX_CSR[n]) = addr
  THEN CHOOSE n \in DOMAIN VX_CSR : Word(VX_CSR[n]) = addr
  ELSE "default"

\* Core::get_csr, instrs being perf_stats_.instrs (below 2^31 - 4)
get_csr(addr, instrs) ==
  LET c == csr_case(addr)
  IN  CASE c \in {"MHARTID", "SATP", "PMPCFG0", "PMPADDR0", "MSTATUS", "MISA",
                  "MEDELEG", "MIDELEG", "MIE", "MTVEC", "MEPC", "MNSTATUS"} ->
             [status |-> "returned", ret |-> Word(0)]
        [] c = "MCYCLE" -> [status |-> "returned", ret |-> Word((instrs - 1) + 5)]
        [] c = "MCYCLE_H" -> [status |-> "returned", ret |-> Word(0)]
        [] c = "MINSTRET" -> [status |-> "returned", ret |-> Word(instrs)]
        [] c = "MINSTRET_H" -> [status |-> "returned", ret |-> Word(0)]
        [] OTHER -> [status |-> "aborted"]

\* set_csr with a case for every address get_csr has one for
set_csr_as_get_csr(addr, value) ==
  IF csr_case(addr) # "default" THEN "returned" ELSE "aborted"

\* Core::set_csr: it returns, having written nothing, or aborts
set_csr(addr, value) ==
  IF csr_case(addr) \in {"SATP", "MSTATUS", "MEDELEG", "MIDELEG", "MIE", "MTVEC",
                         "MEPC", "PMPCFG0", "PMPADDR0", "MNSTATUS"}
  THEN "returned"
  ELSE "aborted"

\* Core::mem_access: status, the rd_data returned, the dmem_write made and
\* the set_csr call made
mem_access(instr, rd_data, rs2_data, mem_data) ==
  LET func3 == instr.func3
      flags == instr.exe_flags
      load_aborts  == flags.is_load # 0 /\ func3 \notin {0, 1, 2, 4, 5}
      rd1          == IF flags.is_load # 0 /\ ~load_aborts
                      THEN load_value(func3, mem_data) ELSE rd_data
      store_aborts == flags.is_store # 0 /\ func3 \notin {0, 1, 2}
      write        == IF flags.is_store # 0 /\ ~store_aborts
                      THEN [addr |-> rd1, data |-> dmem_read(rs2_data, data_bytes(func3)),
                            size |-> data_bytes(func3)]
                      ELSE [size |-> 0]
      csr_written  == flags.is_csr # 0 /\ rs2_data # rd1
      csr_aborts   == csr_written /\ set_csr(instr.imm, rd1) = "aborted"
      rd2          == IF flags.is_csr # 0 THEN rs2_data ELSE rd1
  IN  IF load_aborts \/ store_aborts \/ csr_aborts
      THEN [status |-> "aborted"]
      ELSE [status |-> "returned", ret |-> rd2, write |-> write,
            set_csr |-> csr_written]

\* ------------------------------------------------------------------------
\* state

VARIABLES
  driven,       \* which predictor object the calls go to: "GShare" or "GSharePlus"
  gshare,       \* a plain GShare object
  gshare_plus,  \* a GSharePlus object
  call,         \* the last predictor call: its arguments, locals and returned value
  updates,      \* the number of update calls made
  standalone,   \* two stand-alone GShare objects, of the history widths of a
                \* GSharePlus's sub-predictors, given every update the GSharePlus is given
  outcomes,     \* the taken flags of the update calls made, the most recent first
  last_taken,   \* per word address (PC >> 2): the next_PC of the most recent
                \* update of the plain GShare with taken = true, if there was one
  gshare_enabled, \* the global flag gating the core's use of its predictor
  bpred_,       \* the core's predictor
  PC_,          \* the core's authoritative program counter
  if_id_,       \* the IF/ID latch: the instruction fetched after the one in execute
  perf_stats_,  \* the core's counters: branches, bpred_miss
  flushes,      \* the number of if_id_->reset() calls made
  update_calls, \* the number of bpred_->update calls made
  last_update,  \* the arguments of the last bpred_->update call
  instr_code,   \* the word last given to Core::decode
  instr,        \* what Core::decode returned for it
  exec          \* the core's last step; of a branch_unit call, its arguments,
                \* the latched PC it read, its next_PC (computed when br_op is
                \* not NONE) and the value it returned

predVars == <<driven, gshare, gshare_plus, call, updates, standalone, outcomes, last_taken>>

coreVars == <<gshare_enabled, bpred_, PC_, if_id_, perf_stats_, flushes, update_calls,
              last_update, exec>>

decodeVars == <<instr_code, instr>>

vars == <<predVars, coreVars, decodeVars>>

\* the objects as constructed
PredictorConstructed ==
  /\ gshare = GShare(BTB_size, BHR_size)
  /\ gshare_plus = GSharePlus(BTB_size, BHR_size)
  /\ call = [op |-> "none"]
  /\ updates = 0
  /\ standalone = [local  |-> change_default_prediction(GShare(BTB_size, BHR_size), 2),
                   global |-> change_default_prediction(GShare(BTB_size, GlobalBHRSize), 2)]
  /\ outcomes = <<>>
  /\ last_taken = [w \in WordAddresses |-> [valid |-> FALSE, next_PC |-> Word(0)]]

CoreConstructed ==
  /\ bpred_ = GShare(BTB_size, BHR_size)
  /\ PC_ = Word(0)
  /\ if_id_ = latch_reset
  /\ perf_stats_ = [branches |-> 0, bpred_miss |-> 0]
  /\ flushes = 0
  /\ update_calls = 0
  /\ last_update = [op |-> "none"]
  /\ exec = [op |-> "none"]

\* no word has been given to Core::decode
NothingDecoded ==
  /\ instr_code = Word(0)
  /\ instr = [ret |-> "none"]

\* ------------------------------------------------------------------------
\* A BranchPredictor, either a GShare or a GSharePlus, driven by predict and
\* update calls with any arguments.

InitPredictor ==
  /\ driven \in {"GShare", "GSharePlus"}
  /\ PredictorConstructed
  /\ gshare_enabled = 1
  /\ CoreConstructed
  /\ NothingDecoded

GSharePredict ==
  \E PC \in PCs :
    /\ driven = "GShare"
    /\ call' = [op |-> "predict", PC |-> PC, ret |-> GShare_predict(gshare, PC)]
    /\ gshare' = GShare_after_predict(gshare, PC)
    /\ UNCHANGED <<driven, gshare_plus, updates, standalone, outcomes, last_taken,
                   coreVars, decodeVars>>

GShareUpdate ==
  \E PC \in PCs, taken \in BOOLEAN :
    \E next_PC \in NextPCs(PC) :
      /\ driven = "GShare"
      /\ updates < MaxUpdates
      /\ gshare' = GShare_update(gshare, PC, next_PC, taken)
      /\ call' = [op |-> "update", PC |-> PC, next_PC |-> next_PC, taken |-> taken,
                  pht_index |-> update_pht_index(gshare, PC),
                  entry |-> At(gshare.PHT_, update_pht_index(gshare, PC))]
      /\ updates' = updates + 1
      /\ outcomes' = <<taken>> \o outcomes
      /\ last_taken' = IF taken
                         THEN [last_taken EXCEPT ![Shr(PC, 2)] = [valid |-> TRUE, next_PC |-> next_PC]]
                         ELSE last_taken
      /\ UNCHANGED <<driven, gshare_plus, standalone, coreVars, decodeVars>>

GSharePlusPredict ==
  \E PC \in PlusPCs :
    /\ driven = "GSharePlus"
    /\ call' = [op |-> "predict", PC |-> PC, ret |-> GSharePlus_predict(gshare_plus, PC),
                meta_index |-> meta_index(gshare_plus, PC),
                meta_prediction |-> At(gshare_plus.meta_predictor, meta_index(gshare_plus, PC))]
    /\ gshare_plus' = GSharePlus_after_predict(gshare_plus, PC)
    /\ UNCHANGED <<driven, gshare, updates, standalone, outcomes, last_taken,
                   coreVars, decodeVars>>

GSharePlusUpdate ==
  \E PC \in PlusPCs, taken \in BOOLEAN :
    \E next_PC \in NextPCs(PC) :
      /\ driven = "GSharePlus"
      /\ updates < MaxUpdates
      /\ gshare_plus' = GSharePlus_update(gshare_plus, PC, next_PC, taken)
      /\ call' = [op |-> "update", PC |-> PC, next_PC |-> next_PC, taken |-> taken,
                  local_prediction |-> implied_local(gshare_plus, PC),
                  global_prediction |-> implied_global(gshare_plus, PC),
                  meta_index |-> meta_index(gshare_plus, PC),
                  meta_prediction |-> At(gshare_plus.meta_predictor, meta_index(gshare_plus, PC))]
      /\ updates' = updates + 1
      /\ standalone' = [local  |-> GShare_update(standalone.local, PC, next_PC, taken),
                        global |-> GShare_update(standalone.global, PC, next_PC, taken)]
      /\ outcomes' = <<taken>> \o outcomes
      /\ UNCHANGED <<driven, gshare, last_taken, coreVars, decodeVars>>

NextPredictor ==
  \/ GSharePredict
  \/ GShareUpdate
  \/ GSharePlusPredict
  \/ GSharePlusUpdate

SpecPredictor == InitPredictor /\ [][NextPredictor]_vars

\* ------------------------------------------------------------------------
\* The execute stage's branch resolution: the fetch stage fills the IF/ID
\* latch, and Core::branch_unit resolves the instruction in execute.

InitCore ==
  /\ driven = "Core"
  /\ PredictorConstructed
  /\ gshare_enabled \in {0, 1}
  /\ CoreConstructed
  /\ NothingDecoded

\* the fetch stage latches the instruction at f and moves PC_ past it
Fetch ==
  \E f \in FetchPCs :
    /\ if_id_' = [valid |-> TRUE, PC |-> f]
    /\ PC_' = Add(f, Word(4))
    /\ exec' = [op |-> "fetch"]
    /\ UNCHANGED <<predVars, decodeVars, gshare_enabled, bpred_, perf_stats_, flushes,
                   update_calls, last_update>>

\* count_branch with the two counters exchanged
count_branch_exchanged(perf_stats, miss) ==
  [branches   |-> perf_stats.branches + (IF miss THEN 1 ELSE 0),
   bpred_miss |-> perf_stats.bpred_miss + 1]

\* the counters of Core::branch_unit after a resolved branch:
\* perf_stats_.branches++, and perf_stats_.bpred_miss++ on a misprediction
count_branch(perf_stats, miss) ==
  [branches   |-> perf_stats.branches + 1,
   bpred_miss |-> perf_stats.bpred_miss + (IF miss THEN 1 ELSE 0)]

\* Core::branch_unit(instr, rs1_data, rs2_data, rd_data, PC), br_op being
\* instr.getBrOp()
BranchUnitCall(br_op, rs1_data, rs2_data, rd_data, PC) ==
    LET taken    == br_taken(br_op, rs1_data, rs2_data)
        next_PC  == branch_next_PC(taken, rd_data, PC)
        miss     == resolves(br_op) /\ mispredicted(next_PC, if_id_.PC)
        train    == resolves(br_op) /\ trains_predictor(gshare_enabled, miss)
    IN  /\ resolves(br_op) => perf_stats_.branches < MaxBranches
        /\ perf_stats_' =
             IF resolves(br_op) THEN count_branch(perf_stats_, miss) ELSE perf_stats_
        /\ PC_' = IF miss THEN next_PC ELSE PC_
        /\ if_id_' = IF miss THEN latch_reset ELSE if_id_
        /\ flushes' = IF miss THEN flushes + 1 ELSE flushes
        /\ bpred_' = IF train THEN GShare_update(bpred_, PC, next_PC, taken) ELSE bpred_
        /\ update_calls' = IF train THEN update_calls + 1 ELSE update_calls
        /\ last_update' =
             IF train
             THEN [op |-> "update", PC |-> PC, next_PC |-> next_PC, taken |-> taken]
             ELSE last_update
        /\ exec' = [op |-> "branch_unit", br_op |-> br_op, rs1_data |-> rs1_data,
                    rs2_data |-> rs2_data, rd_data |-> rd_data, PC |-> PC,
                    latched_PC |-> if_id_.PC, next_PC |-> next_PC,
                    ret |-> branch_rd_data(br_op, taken, rd_data, PC)]
        /\ UNCHANGED <<predVars, decodeVars, gshare_enabled>>

\* a call of Core::branch_unit with any arguments
BranchUnit ==
  \E br_op \in BrOps, rs \in OperandPairs, rd_data \in AluResults, PC \in ExecPCs :
    BranchUnitCall(br_op, rs[1], rs[2], rd_data, PC)

NextCore == Fetch \/ BranchUnit

SpecCore == InitCore /\ [][NextCore]_vars

\* ------------------------------------------------------------------------
\* The decode stage: Core::decode called on instruction words.

InitDecode ==
  /\ driven = "Core"
  /\ PredictorConstructed
  /\ gshare_enabled = 1
  /\ CoreConstructed
  /\ instr_code \in DecodeInputs
  /\ instr = [ret |-> "none"]

Decode ==
  /\ instr' = decode(instr_code)
  /\ UNCHANGED <<predVars, coreVars, instr_code>>

NextDecode == Decode

SpecDecode == InitDecode /\ [][NextDecode]_vars

\* ------------------------------------------------------------------------
\* The execute stage on decoded instructions: Core::decode, then
\* Core::alu_unit and Core::branch_unit on what it returned.

\* offsets of the branches executed
BranchOffsets == {8, -8, 4094, -4096}

\* the upper immediates of the LUI words executed, in units of 2^12
UpperImmediates == {0, 1, 32, -1}

\* the words decoded and executed: every conditional branch with each
\* offset, a JAL, the R-type add x10, x10, x10 and LUI x5 with each upper
\* immediate
ExecuteCodes ==
  {EncodeB(f3, v) : f3 \in {0, 1, 4, 5, 6, 7}, v \in BranchOffsets}
    \cup {EncodeJ(8), Word2(165, 1331)}
    \cup {EncodeU(OpcodeBits.LUI, k) : k \in UpperImmediates}

InitExecute ==
  /\ driven = "Core"
  /\ PredictorConstructed
  /\ gshare_enabled = 1
  /\ CoreConstructed
  /\ instr_code \in ExecuteCodes
  /\ instr = [ret |-> "none"]

\* the execute stage: the ALU result is the rd_data given to branch_unit
Execute ==
  /\ instr.ret = "Instr"
  /\ \E rs \in OperandPairs, PC \in ExecPCs :
       \E rd_data \in alu_unit(instr, rs[1], rs[2], PC) :
         BranchUnitCall(instr.br_op, rs[1], rs[2], rd_data, PC)

NextExecute == Decode \/ Execute

SpecExecute == InitExecute /\ [][NextExecute]_vars

\* ------------------------------------------------------------------------
\* The units of the execute and memory stages, called with any arguments:
\* Core::alu_unit, Core::mem_access, Core::get_csr, Core::set_csr.

\* the flags of the instructions given to alu_unit: none; operand 1 the PC
\* and operand 2 the immediate; operand 1 the inverted rs1 field
AluFlagSets ==
  {NoFlags,
   [NoFlags EXCEPT !.alu_s1_PC = 1, !.alu_s2_imm = 1],
   [NoFlags EXCEPT !.alu_s1_rs1 = 1, !.alu_s1_inv = 1]}

\* the instructions given to alu_unit: the fields it reads
AluInstrs ==
  {[alu_op |-> op, exe_flags |-> f, imm |-> Word(33), rs1 |-> 5] :
     op \in AluOps, f \in AluFlagSets}

\* rs1_data: one, the sign bit alone, every bit
AluOperands1 == {Word(1), Word2(32768, 0), Word2(65535, 65535)}

\* rs2_data: counts below, at and above the width of a word
AluOperands2 == {Word(0), Word(1), Word(32), Word(33)}

\* the instructions given to mem_access: the fields it reads
MemInstrs ==
  {[func3 |-> f, exe_flags |-> [NoFlags EXCEPT !.is_load = 1], imm |-> Word(0)] :
     f \in 0..7}
    \cup {[func3 |-> f, exe_flags |-> [NoFlags EXCEPT !.is_store = 1], imm |-> Word(0)] :
            f \in 0..7}
    \cup {[func3 |-> 1, exe_flags |-> [NoFlags EXCEPT !.is_csr = 1], imm |-> Word(a)] :
            a \in {VX_CSR.MSTATUS, VX_CSR.MISA}}

\* the bytes the memory holds at the address of the access: a byte 0xFF; a
\* byte below 0x80 in a half above 0x7FFF; a word above 0x7FFFFFFF whose low
\* half is below 0x8000; one with every sign bit clear
MemData == {Word(255), Word(32895), Word2(32768, 4660), Word2(4660, 22136)}

\* rs2_data of mem_access: the store data, or the CSR's old value
MemOperands2 == {Word(16), Word2(4660, 33023)}

\* the addresses given to get_csr and set_csr: every case label and two
\* addresses that have none
CsrAddrs == {Word(VX_CSR[n]) : n \in DOMAIN VX_CSR} \cup {Word(0), Word(3072)}

\* perf_stats_.instrs, the count of retired instructions, as get_csr reads it
InstrCounts == {1, 7}

InitUnits ==
  /\ driven = "Core"
  /\ PredictorConstructed
  /\ gshare_enabled = 1
  /\ CoreConstructed
  /\ NothingDecoded

\* std::abort() has not ended the process
Running == ~(exec.op \in {"mem_access", "get_csr", "set_csr"} /\ exec.status = "aborted")

\* what a call of one of the units leaves alone
UnitFrame ==
  UNCHANGED <<predVars, decodeVars, gshare_enabled, bpred_, PC_, if_id_, perf_stats_,
              flushes, update_calls, last_update>>

AluUnit ==
  /\ Running
  /\ \E in \in AluInstrs, rs1_data \in AluOperands1, rs2_data \in AluOperands2 :
       \E rd_data \in alu_unit(in, rs1_data, rs2_data, Word(4)) :
         exec' = [op |-> "alu_unit", alu_op |-> in.alu_op, exe_flags |-> in.exe_flags,
                  alu_s1 |-> alu_s1(in, rs1_data, Word(4)),
                  alu_s2 |-> alu_s2(in, rs2_data), ret |-> rd_data]
  /\ UnitFrame

MemAccess ==
  /\ Running
  /\ \E in \in MemInstrs, rs2_data \in MemOperands2, mem_data \in MemData :
       exec' = [op |-> "mem_access", func3 |-> in.func3, exe_flags |-> in.exe_flags,
                rd_data |-> Word(16), rs2_data |-> rs2_data, mem_data |-> mem_data,
                status |-> mem_access(in, Word(16), rs2_data, mem_data).status,
                result |-> mem_access(in, Word(16), rs2_data, mem_data)]
  /\ UnitFrame

GetCsr ==
  /\ Running
  /\ \E addr \in CsrAddrs, instrs \in InstrCounts :
       exec' = [op |-> "get_csr", addr |-> addr, instrs |-> instrs,
                status |-> get_csr(addr, instrs).status,
                result |-> get_csr(addr, instrs)]
  /\ UnitFrame

SetCsr ==
  /\ Running
  /\ \E addr \in CsrAddrs, value \in {Word(0), Word(1)} :
       exec' = [op |-> "set_csr", addr |-> addr, value |-> value,
                status |-> set_csr(addr, value)]
  /\ UnitFrame

NextUnits == AluUnit \/ MemAccess \/ GetCsr \/ SetCsr

SpecUnits == InitUnits /\ [][NextUnits]_vars

\* ------------------------------------------------------------------------
\* Claims about the predictors

\* every entry of table t is a 2-bit value, and no entry lies outside the table
TableInRange(t) ==
  /\ t.fill \in 0..3
  /\ DOMAIN t.at \subseteq 0..(t.size - 1)
  /\ \A i \in DOMAIN t.at : t.at[i] \in 0..3

\* XOR(PC>>2, BHR) masked to a table of 2^width entries
XorIndex(PC, BHR, width) ==
  BitXor(Val(Shr(PC, 2)) % Pow2(width), Val(BHR) % Pow2(width))

SatInc(c) == IF c + 1 > 3 THEN 3 ELSE c + 1

SatDec(c) == IF c - 1 < 0 THEN 0 ELSE c - 1

\* the counters of a GShare object stay in [0,3]
GShareInRange(g) == TableInRange(g.PHT_)

\* from g to h, the counter addressed by update(PC, _, taken) made one
\* saturating step
GShareCounterStepped(g, h, PC, taken, width) ==
  LET i == XorIndex(PC, g.BHR_, width)
  IN  At(h.PHT_, i) = IF taken THEN SatInc(At(g.PHT_, i)) ELSE SatDec(At(g.PHT_, i))

C2_BTBHitNeedsTag ==
  \A PC \in PCs :
    LET e   == gshare.BTB_[BitAnd(Val(Shr(PC, 2)), BTB_size - 1)]
        tag == Shr(Shr(PC, 2), log2ceil(BTB_size))
        r   == GShare_predict(gshare, PC)
    IN  /\ r # Add(PC, Word(4)) => e.valid /\ e.tag = tag /\ r = e.br_target
        /\ e.valid /\ e.tag # tag => r = Add(PC, Word(4))

\* C2 witness: the BTB entry shared by PC 0 and AliasPC holds PC 0's branch,
\* the PHT predicts AliasPC taken, and predict(AliasPC) returned AliasPC+4
C2_Witness ==
  /\ driven = "GShare"
  /\ call.op = "predict"
  /\ call.PC = AliasPC
  /\ gshare.BTB_[0].valid
  /\ gshare.BTB_[0].tag = Word(0)
  /\ gshare.BTB_[0].br_target = FarTarget
  /\ At(gshare.PHT_, XorIndex(AliasPC, gshare.BHR_, BHR_size)) >= 2
  /\ call.ret = Add(AliasPC, Word(4))

\* the meta-table index of PC: PC>>2 masked to the meta-table's width
MetaIdx(PC) == Val(Shr(PC, 2)) % Pow2(BHR_size)

\* a GSharePlus update call was made in this step
PlusUpdated == updates' # updates /\ driven = "GSharePlus"

\* a plain GShare update call was made in this step
GShareUpdated == updates' # updates /\ driven = "GShare"

\* the implied taken/not-taken prediction of sub-predictor g for PC
Implied(g, PC) == GShare_predict(g, PC) # Add(PC, Word(4))

\* C6: in GSharePlus.update, when the implied predictions of the two
\* sub-predictors for this PC are equal the meta-table is left as it was, and
\* no update changes a meta-table entry other than the one at this PC's index.
C6_MetaStaysOnAgreement ==
  [][PlusUpdated =>
       LET PC == call'.PC
           m  == gshare_plus.meta_predictor
           n  == gshare_plus'.meta_predictor
       IN  /\ Implied(gshare_plus.local_predictor, PC)
                = Implied(gshare_plus.global_predictor, PC) => n = m
           /\ \A i \in 0..(m.size - 1) : i # MetaIdx(PC) => At(n, i) = At(m, i)]_vars

\* C6 witness: an update found both sub-predictors agreeing and both wrong,
\* and the meta-counter at the PC's index kept its value
C6_Witness ==
  /\ driven = "GSharePlus"
  /\ call.op = "update"
  /\ call.local_prediction = call.global_prediction
  /\ call.local_prediction # call.taken
  /\ At(gshare_plus.meta_predictor, call.meta_index) = call.meta_prediction

\* C7: in GSharePlus.update, when exactly one sub-predictor's implied
\* prediction matches the outcome, the meta-counter at this PC's index is
\* incremented (clamped at 3) if only the local predictor was correct and
\* decremented (clamped at 0) if only the global predictor was correct.
C7_MetaMovesTowardCorrect ==
  [][PlusUpdated =>
       LET PC    == call'.PC
           taken == call'.taken
           loc   == Implied(gshare_plus.local_predictor, PC) = taken
           glo   == Implied(gshare_plus.global_predictor, PC) = taken
           old   == At(gshare_plus.meta_predictor, MetaIdx(PC))
           new   == At(gshare_plus'.meta_predictor, MetaIdx(PC))
       IN  /\ loc /\ ~glo => new = SatInc(old)
           /\ glo /\ ~loc => new = SatDec(old)]_vars

\* C8: predict(PC) of a GSharePlus is the local sub-predictor's predict(PC)
\* when the meta-counter at this PC's index is >= 2 and the global
\* sub-predictor's predict(PC) otherwise.
C8_PredictSelectsByMeta ==
  \A PC \in PlusPCs :
    GSharePlus_predict(gshare_plus, PC) =
      IF At(gshare_plus.meta_predictor, MetaIdx(PC)) >= 2
      THEN GShare_predict(gshare_plus.local_predictor, PC)
      ELSE GShare_predict(gshare_plus.global_predictor, PC)

\* C8 witness: the sub-predictors return different addresses for the PC of
\* the last predict call, and the call returned the one the meta-counter selects
C8_Witness ==
  /\ driven = "GSharePlus"
  /\ call.op = "predict"
  /\ GShare_predict(gshare_plus.local_predictor, call.PC)
       # GShare_predict(gshare_plus.global_predictor, call.PC)
  /\ call.ret = GShare_predict(gshare_plus.local_predictor, call.PC)
  /\ At(gshare_plus.meta_predictor, MetaIdx(call.PC)) >= 2

\* C9: GShare.update(PC, _, taken) modifies at most the one PHT entry that
\* predict(PC) reads in the state before the update, the entry at
\* XOR(PC>>2, BHR) masked to the table width for the BHR of before the call.
C9_UpdateIndexesWithOldBHR ==
  [][GShareUpdated =>
       LET PC == call'.PC
           i  == predict_pht_index(gshare, PC)
       IN  /\ i = XorIndex(PC, gshare.BHR_, BHR_size)
           /\ \A j \in 0..(gshare.PHT_.size - 1) :
                j # i => At(gshare'.PHT_, j) = At(gshare.PHT_, j)
           /\ At(gshare'.PHT_, i) = IF call'.taken THEN SatInc(At(gshare.PHT_, i))
                                                   ELSE SatDec(At(gshare.PHT_, i))]_vars

\* C9 witness: an update changed the counter at the index of the BHR it
\* started with, and the BHR it left behind gives the same PC another index
C9_Witness ==
  /\ driven = "GShare"
  /\ call.op = "update"
  /\ At(gshare.PHT_, call.pht_index) # call.entry
  /\ call.pht_index # XorIndex(call.PC, gshare.BHR_, BHR_size)

\* the last call was a predict of the GSharePlus
PlusPredicted == driven = "GSharePlus" /\ call.op = "predict"

\* C20 as stated: in predict(PC) and update(PC, ...) of a GSharePlus the
\* meta-counter consulted is the one at XOR(PC>>2, branch history) masked to
\* the table width, the index the local sub-predictor uses for its PHT in
\* that state.
C20_AsStated ==
  /\ [](PlusPredicted =>
          call.meta_index = predict_pht_index(gshare_plus.local_predictor, call.PC))
  /\ [][PlusUpdated =>
          call'.meta_index = predict_pht_index(gshare_plus.local_predictor, call'.PC)]_vars

\* C20 amended: in predict(PC) and update(PC, ...) of a GSharePlus the
\* meta-counter consulted is the one at PC>>2 masked to the table width,
\* whatever the branch history of either sub-predictor.
C20_MetaIndexedByPC ==
  /\ [](PlusPredicted =>
          /\ call.meta_index = MetaIdx(call.PC)
          /\ call.meta_prediction = At(gshare_plus.meta_predictor, MetaIdx(call.PC)))
  /\ [][PlusUpdated =>
          /\ call'.meta_index = MetaIdx(call'.PC)
          /\ call'.meta_prediction = At(gshare_plus.meta_predictor, MetaIdx(call'.PC))]_vars

\* C20 witness: a predict call consulted the meta-counter at PC>>2 while the
\* local sub-predictor's history gave the PC another PHT index
C20_Witness ==
  /\ PlusPredicted
  /\ gshare_plus.local_predictor.BHR_ # Word(0)
  /\ call.meta_index = MetaIdx(call.PC)
  /\ call.meta_index # XorIndex(call.PC, gshare_plus.local_predictor.BHR_, BHR_size)

\* C21: predict is read-only: a predict(PC) call of a GShare or of a
\* GSharePlus leaves BTB, PHT, BHR and meta-table as they were, so that a
\* later predict returns what it would have returned before the call.
C21_PredictReadOnly ==
  [][call'.op = "predict" =>
       /\ UNCHANGED <<gshare, gshare_plus>>
       /\ \A PC \in PCs : GShare_predict(gshare', PC) = GShare_predict(gshare, PC)
       /\ \A PC \in PlusPCs :
            GSharePlus_predict(gshare_plus', PC) = GSharePlus_predict(gshare_plus, PC)]_vars

\* C21 witness: a predict call on a trained GSharePlus returned a target
\* from a BTB, and the tables are those two updates leave
C21_Witness ==
  /\ PlusPredicted
  /\ updates = 2
  /\ call.ret = FarTarget
  /\ gshare_plus.local_predictor.BHR_ = Word(3)
  /\ gshare_plus.local_predictor.BTB_[0].valid

\* the meta counter after an update, from the counter before it and from
\* whether each sub-predictor, before the update, predicted the outcome
MetaAfter(old, local_correct, global_correct) ==
  IF local_correct = global_correct THEN old
  ELSE IF local_correct THEN SatDec(old) ELSE SatInc(old)

\* C22: GSharePlus.update forwards every update to both sub-predictors:
\* after any sequence of updates the local and the global sub-predictor
\* equal stand-alone GShare objects of the same BTB size and of history
\* width BHR_size and 12, counters initialised to 2, that received the same
\* updates; and the meta counter an update leaves is determined by the
\* sub-predictors' predictions before that update.
C22_ForwardsToBoth ==
  /\ [](driven = "GSharePlus" =>
          /\ gshare_plus.local_predictor = standalone.local
          /\ gshare_plus.global_predictor = standalone.global)
  /\ [][PlusUpdated =>
          /\ gshare_plus'.local_predictor =
               GShare_update(standalone.local, call'.PC, call'.next_PC, call'.taken)
          /\ gshare_plus'.global_predictor =
               GShare_update(standalone.global, call'.PC, call'.next_PC, call'.taken)
          /\ At(gshare_plus'.meta_predictor, MetaIdx(call'.PC)) =
               MetaAfter(At(gshare_plus.meta_predictor, MetaIdx(call'.PC)),
                         Implied(standalone.local, call'.PC) = call'.taken,
                         Implied(standalone.global, call'.PC) = call'.taken)]_vars

\* C22 witness: the two sub-predictors have come to differ in history and
\* in prediction, and the last update moved the meta counter
C22_Witness ==
  /\ driven = "GSharePlus"
  /\ updates > 3
  /\ call.op = "update"
  /\ call.local_prediction # call.global_prediction
  /\ gshare_plus.local_predictor.BHR_ # gshare_plus.global_predictor.BHR_
  /\ At(gshare_plus.meta_predictor, call.meta_index) # 2

\* what predict(PC) of g is to return: PC+4 when the counter at
\* XOR(PC>>2, BHR) is below 2, else the target of the BTB entry of PC when
\* that entry is valid with PC's tag, else PC+4
PredictedNextPC(g, PC, width) ==
  LET e == g.BTB_[BitAnd(Val(Shr(PC, 2)), BTB_size - 1)]
  IN  IF At(g.PHT_, XorIndex(PC, g.BHR_, width)) < 2 THEN Add(PC, Word(4))
      ELSE IF e.valid /\ e.tag = Shr(Shr(PC, 2), log2ceil(BTB_size)) THEN e.br_target
      ELSE Add(PC, Word(4))

\* C23: in every reachable GShare state predict(PC) predicts taken exactly
\* when the PHT counter at XOR(PC>>2, BHR), masked, is at least 2; not-taken
\* gives PC+4, taken gives the BTB target when the entry is valid with a
\* matching tag and PC+4 otherwise; a freshly constructed plain GShare
\* returns PC+4 for every PC.
C23_PredictFunction ==
  /\ \A PC \in PCs :
       /\ GShare_predict(gshare, PC) = PredictedNextPC(gshare, PC, BHR_size)
       /\ updates = 0 => GShare_predict(gshare, PC) = Add(PC, Word(4))
  /\ \A PC \in PlusPCs :
       /\ GShare_predict(gshare_plus.local_predictor, PC) =
            PredictedNextPC(gshare_plus.local_predictor, PC, BHR_size)
       /\ GShare_predict(gshare_plus.global_predictor, PC) =
            PredictedNextPC(gshare_plus.global_predictor, PC, GlobalBHRSize)
  /\ (driven = "GShare" /\ call.op = "predict") =>
       call.ret = PredictedNextPC(gshare, call.PC, BHR_size)

\* C23 witness: predict(4) of a plain GShare found the counter of PC 4 at 1
\* and returned PC+4 although the BTB entry of PC 4 is valid with its tag
C23_Witness ==
  /\ driven = "GShare"
  /\ call.op = "predict"
  /\ call.PC = Word(4)
  /\ At(gshare.PHT_, XorIndex(Word(4), gshare.BHR_, BHR_size)) = 1
  /\ gshare.BTB_[BitAnd(1, BTB_size - 1)].valid
  /\ gshare.BTB_[BitAnd(1, BTB_size - 1)].tag = Shr(Word(1), log2ceil(BTB_size))
  /\ gshare.BTB_[BitAnd(1, BTB_size - 1)].br_target = FarTarget
  /\ call.ret = Word(8)

\* the BHR of g, of width N, holds the last N of the outcomes: bit i is the
\* (i+1)-th most recent taken flag, and 0 when fewer updates were made
HoldsLastOutcomes(g, N) ==
  /\ \A i \in 0..(N - 1) :
       Bit(g.BHR_, i) = IF i < Len(outcomes) /\ outcomes[i + 1] THEN 1 ELSE 0
  /\ \A i \in N..31 : Bit(g.BHR_, i) = 0

\* C24: the BHR is a shift register of the last N update outcomes: after k
\* updates bit i (0 <= i < N) is the taken flag of the (i+1)-th most recent
\* update when i < k and 0 otherwise; the BHR never exceeds 2^N - 1; its
\* value is a function of the outcomes alone, not of the PCs or targets.
C24_BHRShiftRegister ==
  /\ Len(outcomes) = updates
  /\ driven = "GShare" => HoldsLastOutcomes(gshare, BHR_size)
  /\ driven = "GSharePlus" =>
       /\ HoldsLastOutcomes(gshare_plus.local_predictor, BHR_size)
       /\ HoldsLastOutcomes(gshare_plus.global_predictor, GlobalBHRSize)

\* C24 witness: a plain GShare after more updates than its BHR has bits,
\* the older outcomes taken and the recent ones mixed
C24_Witness ==
  /\ driven = "GShare"
  /\ updates = MaxUpdates
  /\ updates > BHR_size
  /\ outcomes[1] = FALSE
  /\ outcomes[2] = TRUE
  /\ outcomes[updates] = TRUE
  /\ Bit(gshare.BHR_, 0) = 0
  /\ Bit(gshare.BHR_, 1) = 1

\* n is a power of two
IsPowerOfTwo(n) == \E k \in 0..16 : n = Pow2(k)

\* predict(PC) of g returns a value read from the BTB: the counter predicts
\* taken and the entry of PC is valid with PC's tag
ReadsBTB(g, PC, width) ==
  LET e == g.BTB_[BitAnd(Val(Shr(PC, 2)), BTB_size - 1)]
  IN  /\ At(g.PHT_, XorIndex(PC, g.BHR_, width)) >= 2
      /\ e.valid
      /\ e.tag = Shr(Shr(PC, 2), log2ceil(BTB_size))

\* no valid entry of the BTB of g becomes invalid in g2
StaysValid(g, g2) ==
  \A i \in DOMAIN g.BTB_ : g.BTB_[i].valid => g2.BTB_[i].valid

\* C25: for a GShare whose BTB size is a power of two, a value predict(PC)
\* takes from the BTB is the next_PC of the most recent update with
\* taken = true whose PC has the same word address PC>>2; an update with
\* taken = false changes no BTB entry; a valid BTB entry never becomes invalid.
C25_BTBHoldsLastTakenTarget ==
  /\ [](IsPowerOfTwo(BTB_size) /\ driven = "GShare" =>
          /\ \A PC \in PCs :
               ReadsBTB(gshare, PC, BHR_size) =>
                 /\ last_taken[Shr(PC, 2)].valid
                 /\ GShare_predict(gshare, PC) = last_taken[Shr(PC, 2)].next_PC
          /\ call.op = "predict" /\ ReadsBTB(gshare, call.PC, BHR_size) =>
               call.ret = last_taken[Shr(call.PC, 2)].next_PC)
  /\ [][/\ GShareUpdated /\ ~call'.taken => gshare'.BTB_ = gshare.BTB_
        /\ PlusUpdated /\ ~call'.taken =>
             /\ gshare_plus'.local_predictor.BTB_ = gshare_plus.local_predictor.BTB_
             /\ gshare_plus'.global_predictor.BTB_ = gshare_plus.global_predictor.BTB_
        /\ StaysValid(gshare, gshare')
        /\ StaysValid(gshare_plus.local_predictor, gshare_plus'.local_predictor)
        /\ StaysValid(gshare_plus.global_predictor, gshare_plus'.global_predictor)]_vars

\* C25 witness: PC 0 and AliasPC, which share a BTB entry, were both
\* updated taken, AliasPC last and to FarTarget; a not-taken update
\* followed, and predict(AliasPC) returned FarTarget
C25_Witness ==
  /\ driven = "GShare"
  /\ call.op = "predict"
  /\ call.PC = AliasPC
  /\ last_taken[Shr(Word(0), 2)].valid
  /\ last_taken[Shr(Word(0), 2)].next_PC = Word(4)
  /\ last_taken[Shr(AliasPC, 2)].valid
  /\ outcomes[1] = FALSE
  /\ ReadsBTB(gshare, AliasPC, BHR_size)
  /\ call.ret = FarTarget

\* ------------------------------------------------------------------------
\* Claims about branch resolution

\* this step is a call of Core::branch_unit
BranchUnitRan == exec'.op = "branch_unit"

\* the outcome of the instruction of the call made in this step
ArchTaken == br_taken(exec'.br_op, exec'.rs1_data, exec'.rs2_data)

\* its architectural next-PC
ArchNextPC == IF ArchTaken THEN exec'.rd_data ELSE Add(exec'.PC, Word(4))

\* on a mismatch of next-PC and latched PC: one misprediction, PC redirected,
\* latch flushed once; on a match: PC, latch and misprediction count untouched
MispredictionHandled ==
  /\ ArchNextPC # if_id_.PC =>
       /\ perf_stats_'.bpred_miss = perf_stats_.bpred_miss + 1
       /\ PC_' = ArchNextPC
       /\ flushes' = flushes + 1
       /\ if_id_' = latch_reset
  /\ ArchNextPC = if_id_.PC =>
       /\ perf_stats_'.bpred_miss = perf_stats_.bpred_miss
       /\ UNCHANGED <<PC_, if_id_, flushes>>

\* the step made one bpred_->update call, with the instruction's PC, next-PC
\* and outcome
UpdateCalledOnce ==
  /\ update_calls' = update_calls + 1
  /\ last_update' = [op |-> "update", PC |-> exec'.PC, next_PC |-> ArchNextPC,
                     taken |-> ArchTaken]

\* the call is a BEQ with equal operands whose target is not the latched PC
TakenBEQMispredicted ==
  /\ exec'.br_op = "BEQ"
  /\ exec'.rs1_data = exec'.rs2_data
  /\ exec'.rd_data # if_id_.PC

\* C3 as stated: branch resolution on a control-flow instruction whose
\* next-PC differs from the latched PC records one misprediction, sets PC_ to
\* the next-PC and flushes the latch once, and leaves PC_, latch and
\* misprediction count alone when they are equal; a mispredicted BEQ with
\* equal operands makes one predictor update call with taken = true.
C3_AsStated ==
  [][BranchUnitRan /\ exec'.br_op # "NONE" =>
       /\ MispredictionHandled
       /\ TakenBEQMispredicted => UpdateCalledOnce /\ last_update'.taken]_vars

\* C3 amended: as C3, the predictor update call of the mispredicted BEQ being
\* made when gshare_enabled is non-zero, and no call otherwise.
C3_MispredictionRecovery ==
  [][BranchUnitRan /\ exec'.br_op # "NONE" =>
       /\ MispredictionHandled
       /\ TakenBEQMispredicted =>
            IF gshare_enabled # 0
            THEN UpdateCalledOnce /\ last_update'.taken
            ELSE UNCHANGED <<update_calls, last_update, bpred_>>]_vars

\* C3 witness: with the predictor enabled, a BEQ with equal operands found
\* the fetched PC 4 in the latch, not its target: one misprediction, one
\* flush, PC_ at the target, one update call with taken = true
C3_Witness ==
  /\ exec.op = "branch_unit"
  /\ exec.br_op = "BEQ"
  /\ exec.rs1_data = exec.rs2_data
  /\ exec.latched_PC = Word(4)
  /\ exec.rd_data = FarTarget
  /\ gshare_enabled = 1
  /\ perf_stats_ = [branches |-> 1, bpred_miss |-> 1]
  /\ flushes = 1
  /\ if_id_ = latch_reset
  /\ PC_ = FarTarget
  /\ update_calls = 1
  /\ last_update = [op |-> "update", PC |-> exec.PC, next_PC |-> FarTarget, taken |-> TRUE]

\* C4 as stated: every branch resolution on an instruction whose branch
\* operation is not NONE makes exactly one predictor update call, with the
\* instruction's PC, its architectural next-PC and its outcome, mispredicted
\* or not.
C4_AsStated ==
  [][BranchUnitRan /\ exec'.br_op # "NONE" => UpdateCalledOnce]_vars

\* C4 amended: when gshare_enabled is non-zero, every branch resolution on an
\* instruction whose branch operation is not NONE makes exactly one predictor
\* update call, with the instruction's PC, its architectural next-PC and its
\* outcome, mispredicted or not; when gshare_enabled is zero it makes none.
C4_UpdateOncePerBranch ==
  [][BranchUnitRan /\ exec'.br_op # "NONE" =>
       IF gshare_enabled # 0
       THEN UpdateCalledOnce
       ELSE UNCHANGED <<update_calls, last_update, bpred_>>]_vars

\* C4 witness: with the predictor enabled, a correctly predicted branch
\* followed a mispredicted one, and each made its update call
C4_Witness ==
  /\ exec.op = "branch_unit"
  /\ exec.br_op # "NONE"
  /\ gshare_enabled = 1
  /\ perf_stats_ = [branches |-> 2, bpred_miss |-> 1]
  /\ if_id_.valid
  /\ update_calls = 2
  /\ last_update.PC = exec.PC
  /\ last_update.next_PC = exec.latched_PC

\* C5: branch resolution on an instruction whose branch operation is NONE
\* makes no predictor update call, does not flush the latch, changes neither
\* PC_ nor the branch and misprediction counters, and returns the ALU result
\* it was given.
C5_NonBranchTouchesNothing ==
  [][BranchUnitRan /\ exec'.br_op = "NONE" =>
       /\ UNCHANGED <<bpred_, update_calls, last_update, flushes, if_id_, PC_, perf_stats_>>
       /\ exec'.ret = exec'.rd_data]_vars

\* C5 witness: after a branch was resolved and trained, a non-branch
\* instruction whose ALU result and PC + 4 both differ from the latched PC
\* returned its ALU result
C5_Witness ==
  /\ exec.op = "branch_unit"
  /\ exec.br_op = "NONE"
  /\ if_id_.valid
  /\ exec.latched_PC = if_id_.PC
  /\ exec.rd_data # exec.latched_PC
  /\ Add(exec.PC, Word(4)) # exec.latched_PC
  /\ exec.ret = exec.rd_data
  /\ update_calls = 1
  /\ perf_stats_.branches = 1

\* C12: branch resolution computes the next-PC as PC + 4 when the branch is
\* not taken and as the incoming ALU result when it is; for JAL and JALR it
\* returns PC + 4 for rd, for conditional branches and non-branch
\* instructions the incoming ALU result.
C12_NextPCAndLink ==
  exec.op = "branch_unit" =>
    /\ exec.br_op # "NONE" =>
         exec.next_PC = IF br_taken(exec.br_op, exec.rs1_data, exec.rs2_data)
                        THEN exec.rd_data
                        ELSE Add(exec.PC, Word(4))
    /\ exec.ret = IF exec.br_op \in {"JAL", "JALR"}
                  THEN Add(exec.PC, Word(4))
                  ELSE exec.rd_data

\* C12 witness: a JALR at 0xFFFFFFFC jumped to the ALU result and returned
\* the link address, which wraps to 0
C12_Witness ==
  /\ exec.op = "branch_unit"
  /\ exec.br_op = "JALR"
  /\ exec.PC = Word2(65535, 65532)
  /\ exec.next_PC = exec.rd_data
  /\ exec.ret = Word(0)
  /\ exec.ret # exec.rd_data

\* C26: across branch-resolution steps the branch counter and the
\* misprediction counter never decrease; each step on a control-flow
\* instruction raises the branch counter by exactly 1 and the misprediction
\* counter by 0 or 1; hence mispredictions never exceed branches.
C26_CountersMonotone ==
  /\ [](perf_stats_.bpred_miss <= perf_stats_.branches)
  /\ [][/\ perf_stats_'.branches >= perf_stats_.branches
        /\ perf_stats_'.bpred_miss >= perf_stats_.bpred_miss
        /\ BranchUnitRan /\ exec'.br_op # "NONE" =>
             /\ perf_stats_'.branches = perf_stats_.branches + 1
             /\ perf_stats_'.bpred_miss - perf_stats_.bpred_miss \in {0, 1}]_vars

\* C26 witness: two branches were resolved, the first predicted correctly
\* and the last one, a taken BNE, mispredicted
C26_Witness ==
  /\ exec.op = "branch_unit"
  /\ exec.br_op = "BNE"
  /\ exec.next_PC = FarTarget
  /\ exec.latched_PC # exec.next_PC
  /\ perf_stats_.branches = 2
  /\ perf_stats_.bpred_miss = 1

\* ------------------------------------------------------------------------
\* Claims about the execute stage on decoded instructions, checked under
\* SpecExecute

\* the execute stage has resolved a decoded conditional branch as taken
TakenBranchExecuted ==
  /\ exec.op = "branch_unit"
  /\ instr.ret = "Instr"
  /\ instr.opcode = "B"
  /\ exec.br_op \in {"BEQ", "BNE", "BLT", "BGE", "BLTU", "BGEU"}
  /\ br_taken(exec.br_op, exec.rs1_data, exec.rs2_data)

\* C13: through decode, the ALU and branch resolution, a taken conditional
\* branch at PC with decoded B-immediate imm resolves to the next-PC
\* (PC + imm) mod 2^32.
C13_TakenBranchTarget ==
  TakenBranchExecuted => exec.next_PC = Add(exec.PC, instr.imm)

\* what the code resolves a taken conditional branch to: decode selects
\* AluOp::SUB for B-type words, so the ALU hands over PC - imm
C13_TargetComputed ==
  TakenBranchExecuted => exec.next_PC = Sub(exec.PC, instr.imm)

\* the execute stage has run a decoded LUI through the ALU
LuiExecuted ==
  /\ exec.op = "branch_unit"
  /\ instr.ret = "Instr"
  /\ instr.opcode = "LUI"

\* C27: for LUI, decode selects the ALU operation and operand flags such
\* that the ALU result equals the decoded U-immediate, whatever rs1_value,
\* rs2_value and PC are.
C27_LuiYieldsImmediate ==
  LuiExecuted => exec.rd_data = instr.imm

\* what the code computes for LUI: decode selects AluOp::SLL with the
\* immediate as operand 2 and rs1_data as operand 1, so the ALU hands over
\* rs1_data shifted left by the immediate: rs1_data itself or 0
C27_LuiShiftsRs1 ==
  LuiExecuted =>
    /\ instr.alu_op = "SLL"
    /\ instr.exe_flags.alu_s2_imm = 1
    /\ exec.rd_data \in {exec.rs1_data, Word(0)}

\* ------------------------------------------------------------------------
\* Claims about the units, checked under SpecUnits

\* alu_unit has returned for a shift
ShiftDone == exec.op = "alu_unit" /\ exec.alu_op \in {"SLL", "SRL", "SRA"}

\* operand 1 shifted by the low five bits of operand 2
MaskedShift ==
  LET n == exec.alu_s2[2] % 32
  IN  CASE exec.alu_op = "SLL" -> Shl(exec.alu_s1, n)
        [] exec.alu_op = "SRL" -> Shr(exec.alu_s1, n)
        [] exec.alu_op = "SRA" -> Sar(exec.alu_s1, n)

\* C14: for SLL, SRL and SRA the shift amount is the low 5 bits of operand
\* 2: the result is the shift by operand 2 mod 32, a shift by 32 giving what
\* a shift by 0 gives, and SRA shifts the sign bit of operand 1 in.
C14_ShiftAmountMasked == ShiftDone => exec.ret = MaskedShift

\* shifts by less than 32 are as C14 says
C14_ShiftsBelowWidth ==
  ShiftDone /\ LtU(exec.alu_s2, Word(32)) => exec.ret = MaskedShift

\* mem_access has been called on a load
LoadDone == exec.op = "mem_access" /\ exec.exe_flags.is_load = 1

\* the low byte of w, sign-extended and zero-extended
ByteSigned(w) ==
  IF w[2] % 256 >= 128 THEN Word2(65535, 65280 + (w[2] % 256)) ELSE Word(w[2] % 256)

ByteUnsigned(w) == Word(w[2] % 256)

\* the low half of w, sign-extended and zero-extended
HalfSigned(w) == IF w[2] >= 32768 THEN Word2(65535, w[2]) ELSE Word(w[2])

HalfUnsigned(w) == Word(w[2])

\* C15: a load reads 1 << (func3 & 3) bytes at the address and returns them
\* sign-extended for func3 0, 1, 2 (LB, LH, LW) and zero-extended for func3
\* 4, 5 (LBU, LHU): a byte 0xFF gives 0x000000FF under LBU and 0xFFFFFFFF
\* under LB; any other func3 is fatal and gives no value.
C15_LoadExtension ==
  LoadDone =>
    /\ exec.func3 \in {0, 1, 2, 4, 5} => exec.status = "returned"
    /\ exec.func3 = 0 => exec.result.ret = ByteSigned(exec.mem_data)
    /\ exec.func3 = 1 => exec.result.ret = HalfSigned(exec.mem_data)
    /\ exec.func3 = 2 => exec.result.ret = exec.mem_data
    /\ exec.func3 = 4 => exec.result.ret = ByteUnsigned(exec.mem_data)
    /\ exec.func3 = 5 => exec.result.ret = HalfUnsigned(exec.mem_data)
    /\ exec.func3 \in {3, 6, 7} => exec.status = "aborted"
    /\ exec.mem_data = Word(255) /\ exec.func3 = 4 => exec.result.ret = Word(255)
    /\ exec.mem_data = Word(255) /\ exec.func3 = 0 =>
         exec.result.ret = Word2(65535, 65535)

\* C15 witness: LB of a byte 0xFF returned 0xFFFFFFFF
C15_Witness ==
  /\ LoadDone
  /\ exec.func3 = 0
  /\ exec.mem_data = Word(255)
  /\ exec.status = "returned"
  /\ exec.result.ret = Word2(65535, 65535)

\* the case labels of the fixed CSRs the read-zero rule names
FixedCsrs ==
  {"MHARTID", "SATP", "PMPCFG0", "PMPADDR0", "MSTATUS", "MISA", "MEDELEG", "MIDELEG",
   "MIE", "MTVEC", "MEPC"}

\* the live-computed counters
CounterCsrs == {"MCYCLE", "MCYCLE_H", "MINSTRET", "MINSTRET_H"}

\* the case label of the address of the last get_csr or set_csr call
CsrCalled == csr_case(exec.addr)

\* C19 as stated: for each fixed CSR address a read returns 0 and a write
\* returns normally; a read or write of an address outside the supported set
\* (the fixed addresses and the counters) is fatal.
C19_AsStated ==
  /\ exec.op = "get_csr" /\ CsrCalled \in FixedCsrs =>
       exec.status = "returned" /\ exec.result.ret = Word(0)
  /\ exec.op = "set_csr" /\ CsrCalled \in FixedCsrs => exec.status = "returned"
  /\ exec.op \in {"get_csr", "set_csr"} /\ CsrCalled \notin FixedCsrs \cup CounterCsrs =>
       exec.status = "aborted"

\* C19 amended: for each fixed CSR address and for MNSTATUS a read returns
\* 0; a write to one of them other than hart ID and MISA returns normally
\* and changes no state; a write to hart ID, to MISA or to a counter is
\* fatal, and so is a read or write of any other address.
C19_FixedCsrs ==
  /\ [](/\ exec.op = "get_csr" /\ CsrCalled \in FixedCsrs \cup {"MNSTATUS"} =>
              exec.status = "returned" /\ exec.result.ret = Word(0)
        /\ exec.op = "set_csr" =>
              IF CsrCalled \in (FixedCsrs \cup {"MNSTATUS"}) \ {"MHARTID", "MISA"}
              THEN exec.status = "returned"
              ELSE exec.status = "aborted"
        /\ exec.op = "get_csr" /\ CsrCalled = "default" => exec.status = "aborted")
  /\ [][exec'.op = "set_csr" =>
          UNCHANGED <<predVars, decodeVars, gshare_enabled, bpred_, PC_, if_id_,
                      perf_stats_, flushes, update_calls, last_update>>]_vars

\* C19 witness: a write to MSTATUS returned
C19_Witness ==
  /\ exec.op = "set_csr"
  /\ exec.addr = Word(VX_CSR.MSTATUS)
  /\ exec.value = Word(1)
  /\ exec.status = "returned"

\* ------------------------------------------------------------------------
\* Claims about decode, checked under SpecDecode

\* the fields of a word, read from its bits
OpcodeField(w) == w[2] % 128

RdField(w) == (w[2] \div 128) % 32

Func3Field(w) == (w[2] \div 4096) % 8

Rs1Field(w) == (Val(Shr(w, 15))) % 32

Rs2Field(w) == (w[1] \div 16) % 32

Func7Field(w) == w[1] \div 512

\* the ALU operation RV32I gives an R-type word, "undefined" when
\* func3/func7 select none
RTypeAluOp(func3, func7) ==
  CASE func3 = 0 /\ func7 = 0 -> "ADD"
    [] func3 = 0 /\ func7 = 32 -> "SUB"
    [] func3 = 1 /\ func7 = 0 -> "SLL"
    [] func3 = 2 /\ func7 = 0 -> "LTI"
    [] func3 = 3 /\ func7 = 0 -> "LTU"
    [] func3 = 4 /\ func7 = 0 -> "XOR"
    [] func3 = 5 /\ func7 = 0 -> "SRL"
    [] func3 = 5 /\ func7 = 32 -> "SRA"
    [] func3 = 6 /\ func7 = 0 -> "OR"
    [] func3 = 7 /\ func7 = 0 -> "AND"
    [] OTHER -> "undefined"

\* the ALU operation RV32I gives an I-type arithmetic word: func7 only
\* matters to the shifts
ITypeAluOp(func3, func7) ==
  CASE func3 = 0 -> "ADD"
    [] func3 = 1 /\ func7 = 0 -> "SLL"
    [] func3 = 2 -> "LTI"
    [] func3 = 3 -> "LTU"
    [] func3 = 4 -> "XOR"
    [] func3 = 5 /\ func7 = 0 -> "SRL"
    [] func3 = 5 /\ func7 = 32 -> "SRA"
    [] func3 = 6 -> "OR"
    [] func3 = 7 -> "AND"
    [] OTHER -> "undefined"

SelectedAluOp(w) ==
  IF OpcodeField(w) = 51 THEN RTypeAluOp(Func3Field(w), Func7Field(w))
  ELSE ITypeAluOp(Func3Field(w), Func7Field(w))

\* decode has returned for an R-type or I-type arithmetic word with a
\* defined func3/func7
DecodedArith ==
  /\ instr.ret # "none"
  /\ OpcodeField(instr_code) \in {51, 19}
  /\ SelectedAluOp(instr_code) # "undefined"

\* C10: for an R-type or I-type arithmetic word with a defined func3/func7,
\* decode returns an instruction whose ALU operation is the one func3 (and
\* func7) select, whose branch operation is NONE, whose first ALU operand is
\* not the PC, and whose rd, rs1 and rs2 are the word's bit fields; the word
\* 0x00A50533 decodes as an R-type ADD with rd = rs1 = rs2 = 10.
C10_DecodeArith ==
  DecodedArith =>
    /\ instr.ret = "Instr"
    /\ instr.alu_op = SelectedAluOp(instr_code)
    /\ instr.br_op = "NONE"
    /\ instr.exe_flags.alu_s1_PC = 0
    /\ instr.rd = RdField(instr_code)
    /\ instr.rs1 = Rs1Field(instr_code)
    /\ instr.rs2 = Rs2Field(instr_code)
    /\ instr_code = Word2(165, 1331) =>
         /\ instr.opcode = "R"
         /\ instr.alu_op = "ADD"
         /\ instr.rd = 10 /\ instr.rs1 = 10 /\ instr.rs2 = 10

\* the word 0x00A50533 has been decoded
C10_ExampleDecoded == instr.ret # "none" /\ instr_code = Word2(165, 1331)

\* what decode returned for 0x00A50533: the fields are read as claimed, the
\* operation is not
C10_ExampleOutcome ==
  C10_ExampleDecoded =>
    /\ instr.ret = "Instr" /\ instr.opcode = "R"
    /\ instr.rd = 10 /\ instr.rs1 = 10 /\ instr.rs2 = 10
    /\ instr.alu_op = "SUB" /\ instr.br_op = "BEQ" /\ instr.exe_flags.alu_s1_PC = 1

\* decode has returned an Instr with immediate imm for the word w
DecodedImm(w, imm) ==
  instr_code = w /\ instr.ret # "none" => instr.ret = "Instr" /\ instr.imm = imm

DecodedSupported ==
  instr.ret # "none" /\ Opcode(OpcodeField(instr_code)) \in DOMAIN sc_instTable

\* the word has a known opcode and a func3/func7 combination with no mapping
UndefinedCombination(w) ==
  \/ OpcodeField(w) = 51 /\ RTypeAluOp(Func3Field(w), Func7Field(w)) = "undefined"
  \/ OpcodeField(w) = 19 /\ ITypeAluOp(Func3Field(w), Func7Field(w)) = "undefined"
  \/ OpcodeField(w) = 99 /\ Func3Field(w) \in {2, 3}

\* C16: decode fails, returning no Instr, for every word whose opcode is
\* absent from the format table and for every word of a known opcode whose
\* func3/func7 combination has no defined mapping (R-type func3 = 0 with
\* func7 other than 0x00/0x20, B-type func3 = 2 or 3); it returns no Instr
\* whose ALU or branch operation was left at NONE for such a word.
C16_DecodeFailsOnUndefined ==
  instr.ret # "none" =>
    /\ ~DecodedSupported => instr.ret = "nullptr"
    /\ UndefinedCombination(instr_code) => instr.ret # "Instr"

\* the part of C16 the code has: a word whose opcode is absent from
\* sc_instTable gives nullptr
C16_UnknownOpcodeFails ==
  instr.ret # "none" /\ ~DecodedSupported => instr.ret = "nullptr"

\* C17: for every word of a supported opcode, decode returns and never
\* aborts the process, SYS words with func3 = 4 included.
C17_DecodeTotal == DecodedSupported => instr.ret # "abort"

\* the per-format flags of a decoded instruction
FormatFlags(i) ==
  <<i.exe_flags.use_rd, i.exe_flags.use_rs1, i.exe_flags.use_rs2, i.exe_flags.use_imm,
    i.exe_flags.alu_s2_imm>>

\* words of the opcode with every func3 and, for the other fields, all bits
\* clear and all bits set
FlagProbes(opbits) ==
  {Encode(opbits, r, f3, r, r, f7) : f3 \in 0..7, r \in {0, 31}, f7 \in {0, 127}}

\* the decoded word and every probe of its opcode that decodes have the same
\* per-format flags
SameFlagsAsProbes ==
  \A w \in FlagProbes(OpcodeField(instr_code)) :
    decode(w).ret = "Instr" => FormatFlags(decode(w)) = FormatFlags(instr)

\* C18 as stated: two words of the same supported opcode that differ only
\* in func3, func7, rd, rs1 or rs2 decode to the same uses-rd, uses-rs1,
\* uses-rs2, uses-immediate and operand-2-is-immediate flags.
C18_AsStated == instr.ret = "Instr" => SameFlagsAsProbes

\* C18 amended: so it is for every supported opcode but SYS; of a SYS word
\* uses-rs2 and operand-2-is-immediate are clear and uses-immediate is set
\* whatever the fields, uses-rd is set exactly when func3 is not 0 and
\* uses-rs1 exactly when func3 is 1, 2 or 3.
C18_FlagsByFormat ==
  instr.ret = "Instr" =>
    IF instr.opcode # "SYS" THEN SameFlagsAsProbes
    ELSE FormatFlags(instr) =
           <<IF Func3Field(instr_code) # 0 THEN 1 ELSE 0,
             IF Func3Field(instr_code) \in {1, 2, 3} THEN 1 ELSE 0,
             0, 1, 0>>

\* C18 witness: CSRRWI (SYS, func3 = 5) decoded: it uses rd and the
\* immediate and not rs1, where ECALL uses neither register
C18_Witness ==
  /\ instr.ret = "Instr"
  /\ instr.opcode = "SYS"
  /\ Func3Field(instr_code) = 5
  /\ FormatFlags(instr) = <<1, 0, 0, 1, 0>>
  /\ FormatFlags(decode(Encode(115, 0, 0, 0, 0, 0))) = <<0, 0, 0, 1, 0>>

====
